---------------------------- MODULE Spec2Model ----------------------------
(***************************************************************************)
(* A model of the open-banking agent of DLB-STF-96/Agente_gemini:          *)
(*   - main.py       the two-node agent graph (our_agent / tools), its     *)
(*                   history logging and the command-line REPL;           *)
(*   - streamlit.py  the Streamlit front end (connect, chat turn);         *)
(*   - app_tools/    the tool registry, the fixture loaders and the        *)
(*                   deterministic scoring tools.                          *)
(*                                                                         *)
(* Text is modelled as a sequence of tokens.  A token is one character     *)
(* (" ", "\n", ":", "a", ...) wherever the code looks inside the text      *)
(* (strip, startswith, lower, line splitting); an identifier or a fixed    *)
(* literal that is only ever copied (a tool name, a file name, the fixed   *)
(* words of a log line of the full history) is one token.                  *)
(***************************************************************************)
EXTENDS Integers, Sequences, FiniteSets, TLC

VARIABLES
    frontend,      \* "cli" (main.py __main__) or "streamlit" (streamlit.py main_ui)
    session,       \* role, client_tier, customer_id, lite_path, full_path of the front end
    messages_seq,  \* the front end's in-memory conversation: (role, text) pairs
    state,         \* the graph's AgentState: messages and meta
    pc,            \* position: startup, idle, our_agent, should_continue, tools, END
    fs,            \* the history files: path -> content (text)
    unwritable,    \* the paths whose open(path, "a") raises
    executed,      \* history: the tool names _tool_node has run in this session
    steps,         \* history: the number of model.invoke calls so far
    turn,          \* the turn in progress: user_q, and (history) the input length and the files at app.invoke
    gtr,           \* get_tools_for_role applied to drawn inputs
    lt,            \* the lite-history write / parse round trip on drawn messages
    fx,            \* the fixture files under app_tools/data
    tcall,         \* the last two tool invocations (tool, args, fixtures read, result)
    churn,         \* calculate_churn_risk applied to a drawn customer record
    form           \* the sidebar form of the Streamlit page as last submitted

vars == <<frontend, session, messages_seq, state, pc, fs, unwritable, executed,
          steps, turn, gtr, lt, fx, tcall, churn, form>>

agentVars == <<frontend, session, messages_seq, state, pc, fs, unwritable,
               executed, steps, turn, form>>

(***************************************************************************)
(* Text                                                                    *)
(***************************************************************************)

\* Python's None, as a value comparable with texts.
NoneVal == <<"<None>">>

\* {}
EmptyDict == [k \in {} |-> 0]

\* A JSON null where a dict is expected.
JsonNull == [k \in {"<None>"} |-> TRUE]

\* v or {}
or_empty_dict(v) == IF DOMAIN v \subseteq {"<None>"} THEN EmptyDict ELSE v

\* What str.strip() removes.
Whitespace == {" ", "\n", "\t"}

RECURSIVE lstrip(_)
lstrip(s) == IF s # <<>> /\ Head(s) \in Whitespace THEN lstrip(Tail(s)) ELSE s

RECURSIVE rstrip(_)
rstrip(s) ==
    IF s # <<>> /\ s[Len(s)] \in Whitespace THEN rstrip(SubSeq(s, 1, Len(s) - 1)) ELSE s

strip(s) == rstrip(lstrip(s))

startswith(s, prefix) ==
    Len(s) >= Len(prefix) /\ SubSeq(s, 1, Len(prefix)) = prefix

\* s[n:]
slice_from(s, n) == SubSeq(s, n + 1, Len(s))

\* str.lower() on one character.
lower_char(c) ==
    CASE c = "A" -> "a" [] c = "C" -> "c" [] c = "E" -> "e" [] c = "F" -> "f"
      [] c = "I" -> "i"
      [] c = "J" -> "j" [] c = "L" -> "l" [] c = "M" -> "m" [] c = "N" -> "n"
      [] c = "O" -> "o" [] c = "P" -> "p"
      [] c = "R" -> "r" [] c = "T" -> "t" [] c = "U" -> "u" [] c = "V" -> "v"
      [] c = "X" -> "x" [] OTHER -> c

lower(s) == [i \in 1..Len(s) |-> lower_char(s[i])]

\* The lines a text-mode file iteration yields: each ends with its "\n",
\* except a last line that has none.
RECURSIVE file_lines(_)
file_lines(content) ==
    IF content = <<>> THEN <<>>
    ELSE IF \E i \in 1..Len(content) : content[i] = "\n"
         THEN LET i == CHOOSE j \in 1..Len(content) :
                          /\ content[j] = "\n"
                          /\ \A k \in 1..(j - 1) : content[k] # "\n"
              IN  <<SubSeq(content, 1, i)>> \o file_lines(slice_from(content, i))
         ELSE <<content>>

\* sep.join(parts)
RECURSIVE join(_, _)
join(sep, parts) ==
    IF parts = <<>> THEN <<>>
    ELSE IF Len(parts) = 1 THEN parts[1]
    ELSE parts[1] \o sep \o join(sep, Tail(parts))

Last(s) == s[Len(s)]

IsPrefix(s, t) == Len(s) <= Len(t) /\ SubSeq(t, 1, Len(s)) = s

Range(s) == {s[i] : i \in 1..Len(s)}

\* dict.get(key): None when the key is absent.
dict_get(d, key) == IF key \in DOMAIN d THEN d[key] ELSE NoneVal

\* Python truthiness of an optional text: None and "" are falsy.
truthy(v) == v # NoneVal /\ v # <<>>

(***************************************************************************)
(* app_tools/__init__.py: the tool registry                                *)
(***************************************************************************)

TOOLS_BASIC ==
    << "calculate_clv", "calculate_churn_risk", "calculate_engagement",
       "calculate_product_affinity", "calculate_risk_profile",
       "financial_behaviour_analysis", "analyze_digital_engagement",
       "summarize_transactions", "trending_forecast", "payment_behavior",
       "detect_transaction_anomalies", "analyze_market_condition",
       "analyze_competition", "customer_sentiment_overview",
       "identify_opportunities", "identify_threats",
       "generate_market_recommendations", "overall_risk_score_calculator",
       "categorize_risk", "assess_churn_risk", "assess_financial_risk",
       "assess_operational_risk", "business_impact", "risk_factors",
       "recommend_mitigation", "define_monitoring" >>

TOOLS_CLIENT_PREMIUM ==
    << "investment_strategy_planner", "investment_proposal_advisor",
       "smart_alerts_generator", "advanced_planning_simulations" >>

TOOLS_EXECUTIVE ==
    << "executive_sales_opportunity_identifier", "executive_proactive_retention",
       "executive_advanced_lead_scoring", "executive_kyc_overview" >>

TOOLS == TOOLS_BASIC \o TOOLS_CLIENT_PREMIUM \o TOOLS_EXECUTIVE

s_ejecutivo == <<"e", "j", "e", "c", "u", "t", "i", "v", "o">>
s_executive == <<"e", "x", "e", "c", "u", "t", "i", "v", "e">>
s_ex        == <<"e", "x">>
s_cliente   == <<"c", "l", "i", "e", "n", "t", "e">>
s_premium   == <<"p", "r", "e", "m", "i", "u", "m">>
s_vip       == <<"v", "i", "p">>
s_normal    == <<"n", "o", "r", "m", "a", "l">>

\* `x or ""`
or_empty(v) == IF truthy(v) THEN v ELSE <<>>

get_tools_for_role_premium_for_all(role, client_tier) ==
    LET r == lower(or_empty(role))
        tier == lower(or_empty(client_tier))
    IN  IF tier \in {s_premium, s_vip} THEN TOOLS_BASIC \o TOOLS_CLIENT_PREMIUM
        ELSE IF r \in {s_ejecutivo, s_executive, s_ex} THEN TOOLS_BASIC \o TOOLS_EXECUTIVE
        ELSE TOOLS_BASIC

get_tools_for_role(role, client_tier) ==
    LET r == lower(or_empty(role))
        tier == lower(or_empty(client_tier))
    IN  IF r \in {s_ejecutivo, s_executive, s_ex} THEN TOOLS_BASIC \o TOOLS_EXECUTIVE
        ELSE IF tier \in {s_premium, s_vip} THEN TOOLS_BASIC \o TOOLS_CLIENT_PREMIUM
        ELSE TOOLS_BASIC


(***************************************************************************)
(* Bounds and input domains of the agent model                            *)
(***************************************************************************)

\* model.invoke calls per session (all turns together).
MaxModelCalls == 3

s_ok == <<" ", "o", "k">>
s_hi == <<"h", "i">>

\* What the language model may answer with: a text ...
ModelTexts == {<<>>, s_ok}

\* ... and a list of tool calls, each naming a tool the model was bound to.
CallLists ==
    { <<>>,
      <<"calculate_clv">>,
      <<"investment_strategy_planner">>,
      <<"executive_kyc_overview">>,
      <<"calculate_churn_risk", "summarize_transactions">> }

\* What the user types: stripped and non-empty.
UserTexts == {s_hi}

CustomerIds == {<<"CUST001">>}

\* The tier field of the customer's record in customers.json.
Tiers == {s_normal, s_premium}

\* The summary the language model (or the fallback) gives of a loaded history.
SummaryTexts == {<<"resumen">>}

(***************************************************************************)
(* main.py: messages                                                       *)
(***************************************************************************)

HumanMessage(text) ==
    [type |-> "human", content |-> text, tool_calls |-> <<>>, name |-> NoneVal]

AIMessage(text, calls) ==
    [type |-> "ai", content |-> text, tool_calls |-> calls, name |-> NoneVal]

ToolMessage(tool, text) ==
    [type |-> "tool", content |-> text, tool_calls |-> <<>>, name |-> <<tool>>]

\* A (role, text) pair of the front ends.
Pair(role, text) == [role |-> role, text |-> text]

\* The graph's coercion of a (role, text) pair to a message.
coerce(pair) ==
    IF pair.role \in {"user", "human"} THEN HumanMessage(pair.text)
    ELSE AIMessage(pair.text, <<>>)

\* The reducer of AgentState.messages: new messages go to the end.
add_messages(left, right) == left \o right

_get_role(msg) == msg.type

_get_text(msg) == msg.content

_tool_call_names(tool_calls) == tool_calls

\* model = base_model.bind_tools(TOOLS)
BoundTools == TOOLS

\* _tool_node = ToolNode(tools=TOOLS)
NodeTools == TOOLS

ToolCallChoices == {c \in CallLists : Range(c) \subseteq Range(BoundTools)}

(***************************************************************************)
(* History files                                                           *)
(***************************************************************************)

\* streamlit.py compute_history_paths
compute_history_paths(role, customer_id) ==
    IF role = s_ejecutivo
    THEN [lite |-> <<"historial_ex_">> \o customer_id \o <<".txt">>,
          full |-> <<"historial_ex_">> \o customer_id \o <<"_completo.txt">>]
    ELSE [lite |-> <<"historial_">> \o customer_id \o <<".txt">>,
          full |-> <<"historial_">> \o customer_id \o <<"_completo.txt">>]

\* main.py __main__: the two paths of the REPL
cli_history_paths(customer_id) ==
    [lite |-> <<"historial_">> \o customer_id \o <<".txt">>,
     full |-> <<"historial_completo_">> \o customer_id \o <<".txt">>]

LitePaths ==
    {cli_history_paths(c).lite : c \in CustomerIds}
      \cup {compute_history_paths(r, c).lite : r \in {s_cliente, s_ejecutivo}, c \in CustomerIds}

FullPaths ==
    {cli_history_paths(c).full : c \in CustomerIds}
      \cup {compute_history_paths(r, c).full : r \in {s_cliente, s_ejecutivo}, c \in CustomerIds}

AllPaths == LitePaths \cup FullPaths

\* _append of model_call and of tools_with_logging (the same code twice):
\* nothing without a path, nothing when the open or the write raises.
_append(files, path, text) ==
    IF ~truthy(path) THEN files
    ELSE IF path \in unwritable THEN files
    ELSE [files EXCEPT ![path] = @ \o text \o <<"\n">>]

p_user      == <<"u", "s", "e", "r", ":">>
p_assistant == <<"a", "s", "s", "i", "s", "t", "a", "n", "t", ":">>

\* The text of the WHY line of the full history.
why_text(names) ==
    <<"WHY: Para responder a la solicitud del usuario, se usaran herramientas: ">>
      \o join(<<",", " ">>, [i \in 1..Len(names) |-> <<names[i]>>]) \o <<".">>

\* The loader of the lite history (main.py __main__ and streamlit.py
\* load_lite_history hold the same loop).
RECURSIVE parse_lines(_)
parse_lines(lines) ==
    IF lines = <<>> THEN <<>>
    ELSE LET ln == strip(Head(lines))
             rest == parse_lines(Tail(lines))
         IN  IF ln = <<>> THEN rest
             ELSE IF startswith(ln, p_user)
                  THEN <<Pair("user", strip(slice_from(ln, Len(p_user))))>> \o rest
             ELSE IF startswith(ln, p_assistant)
                  THEN <<Pair("assistant", strip(slice_from(ln, Len(p_assistant))))>> \o rest
             ELSE rest

load_lite_history(files, path) == parse_lines(file_lines(files[path]))


(***************************************************************************)
(* main.py: the graph nodes                                                *)
(***************************************************************************)

\* What _tool_node.invoke(state) returns: one ToolMessage per tool call of the
\* newest assistant message, in the order of the calls.
tool_result(tool) ==
    IF tool \in Range(NodeTools) THEN <<"{result of ", tool, "}">>
    ELSE <<"Error: ", tool, " is not a valid tool">>

_tool_node_invoke(st) ==
    LET calls == Last(st.messages).tool_calls
    IN  [i \in 1..Len(calls) |-> ToolMessage(calls[i], tool_result(calls[i]))]

last_is_user(msgs) ==
    msgs # <<>> /\ _get_role(Last(msgs)) \in {"human", "user"}

\* The writes of model_call, in the order of the code.
model_call_log_user_needs_text(files, st, response) ==
    LET msgs == st.messages
        msg_text == strip(_get_text(response))
        tool_calls == response.tool_calls
        full_path == dict_get(st.meta, "full_history_path")
        lite_path == dict_get(st.meta, "lite_history_path")
        f1 == IF last_is_user(msgs) /\ msg_text # <<>>
              THEN _append(files, full_path, <<"USER: ">> \o _get_text(Last(msgs)))
              ELSE files
        f2 == IF tool_calls # <<>>
              THEN _append(f1, full_path, why_text(_tool_call_names(tool_calls)))
              ELSE f1
        f3 == IF msg_text # <<>>
              THEN _append(f2, full_path, <<"ASSISTANT: ">> \o msg_text)
              ELSE f2
        f4 == IF msg_text # <<>> /\ last_is_user(msgs)
              THEN _append(f3, lite_path, p_user \o <<" ">> \o _get_text(Last(msgs)))
              ELSE f3
        f5 == IF msg_text # <<>>
              THEN _append(f4, lite_path, p_assistant \o <<" ">> \o msg_text)
              ELSE f4
    IN  f5

model_call_log(files, st, response) ==
    LET msgs == st.messages
        msg_text == strip(_get_text(response))
        tool_calls == response.tool_calls
        full_path == dict_get(st.meta, "full_history_path")
        lite_path == dict_get(st.meta, "lite_history_path")
        f1 == IF last_is_user(msgs)
              THEN _append(files, full_path, <<"USER: ">> \o _get_text(Last(msgs)))
              ELSE files
        f2 == IF tool_calls # <<>>
              THEN _append(f1, full_path, why_text(_tool_call_names(tool_calls)))
              ELSE f1
        f3 == IF msg_text # <<>>
              THEN _append(f2, full_path, <<"ASSISTANT: ">> \o msg_text)
              ELSE f2
        f4 == IF msg_text # <<>> /\ last_is_user(msgs)
              THEN _append(f3, lite_path, p_user \o <<" ">> \o _get_text(Last(msgs)))
              ELSE f3
        f5 == IF msg_text # <<>>
              THEN _append(f4, lite_path, p_assistant \o <<" ">> \o msg_text)
              ELSE f4
    IN  f5

\* What model_call returns, merged into the state: the response goes to the
\* end of messages, meta is handed on.
model_call_result_replacing(st, response) ==
    [messages |-> <<response>>, meta |-> st.meta]

\* A node that notes the WHY of its response in meta.
model_call_result_noting_why(st, response) ==
    [messages |-> add_messages(st.messages, <<response>>),
     meta |-> IF response.tool_calls # <<>>
              THEN ("last_why" :> why_text(_tool_call_names(response.tool_calls)))
                       @@ st.meta
              ELSE st.meta]

\* A node whose response is lost when the full history cannot be written.
model_call_result_lost_on_failure(st, response) ==
    [messages |-> IF dict_get(st.meta, "full_history_path") \in unwritable
                  THEN st.messages
                  ELSE add_messages(st.messages, <<response>>),
     meta |-> st.meta]

model_call_result(st, response) ==
    [messages |-> add_messages(st.messages, <<response>>), meta |-> st.meta]

\* Node our_agent.
model_call ==
    /\ pc = "our_agent"
    /\ \E content \in ModelTexts, tool_calls \in ToolCallChoices :
         /\ (tool_calls # <<>>) => (steps + 1 < MaxModelCalls)
         /\ LET response == AIMessage(content, tool_calls)
            IN  /\ fs' = model_call_log(fs, state, response)
                /\ state' = model_call_result(state, response)
    /\ steps' = steps + 1
    /\ pc' = "should_continue"
    /\ UNCHANGED <<form, frontend, session, messages_seq, unwritable, executed, turn>>

\* The conditional edge after our_agent.
should_continue_inverted(st) ==
    IF Last(st.messages).tool_calls # <<>> THEN "end" ELSE "continue"

should_continue(st) ==
    IF Last(st.messages).tool_calls # <<>> THEN "continue" ELSE "end"

route ==
    /\ pc = "should_continue"
    /\ pc' = IF should_continue(state) = "continue" THEN "tools" ELSE "END"
    /\ UNCHANGED <<form, frontend, session, messages_seq, state, fs, unwritable,
                   executed, steps, turn>>

\* The writes of tools_with_logging: one TOOL line per tool message.
RECURSIVE tools_log(_, _, _)
tools_log(files, full_path, tool_msgs) ==
    IF tool_msgs = <<>> THEN files
    ELSE LET tm == Head(tool_msgs)
             name == IF truthy(tm.name) THEN tm.name ELSE <<"tool">>
             f == IF _get_role(tm) = "tool"
                  THEN _append(files, full_path,
                               <<"TOOL:">> \o name \o <<" -> ">> \o _get_text(tm))
                  ELSE files
         IN  tools_log(f, full_path, Tail(tool_msgs))

\* Node tools.
tools_with_logging ==
    /\ pc = "tools"
    /\ LET tool_msgs == _tool_node_invoke(state)
           ran == SelectSeq(Last(state.messages).tool_calls,
                            LAMBDA t : t \in Range(NodeTools))
       IN  /\ fs' = tools_log(fs, dict_get(state.meta, "full_history_path"), tool_msgs)
           /\ state' = [messages |-> add_messages(state.messages, tool_msgs),
                        meta |-> state.meta]
           /\ executed' = executed \o ran
    /\ pc' = "our_agent"
    /\ UNCHANGED <<form, frontend, session, messages_seq, unwritable, steps, turn>>


(***************************************************************************)
(* The front ends: main.py __main__ and streamlit.py main_ui               *)
(***************************************************************************)

NoSession ==
    [role |-> NoneVal, client_tier |-> NoneVal, customer_id |-> NoneVal,
     lite_path |-> NoneVal, full_path |-> NoneVal, last_why |-> <<>>,
     initialized |-> FALSE]

\* The sidebar before anything is submitted.
NoForm == [api_key |-> <<>>, role |-> NoneVal, customer_id |-> NoneVal]

NoTurn == [user_q |-> NoneVal, n_in |-> 0, fs |-> [p \in AllPaths |-> <<>>]]

NoState == [messages |-> <<>>, meta |-> [k \in {} |-> NoneVal]]

\* main.py __main__, up to the prompt: the customer id, the two paths, the
\* loaded history.
cli_startup ==
    /\ pc = "startup"
    /\ frontend = "cli"
    /\ \E customer_id \in CustomerIds :
         LET paths == cli_history_paths(customer_id)
         IN  /\ session' = [role |-> NoneVal, client_tier |-> NoneVal,
                            customer_id |-> customer_id,
                            lite_path |-> paths.lite, full_path |-> paths.full,
                            last_why |-> session.last_why,
                            initialized |-> session.initialized]
             /\ messages_seq' = load_lite_history(fs, paths.lite)
    /\ pc' = "idle"
    /\ UNCHANGED <<form, frontend, state, fs, unwritable, executed, steps, turn>>

\* A page that keeps the messages it already has.
initial_messages_kept(old, history_pairs, summary, customer_id) ==
    IF old # <<>> THEN old
    ELSE IF history_pairs # <<>> THEN <<Pair("assistant", summary)>>
    ELSE <<Pair("user", <<"Customer ID: ">> \o customer_id)>>

\* streamlit.py main_ui: session_state["messages"] after Conectar, old being
\* the list setdefault found.
initial_messages(old, history_pairs, summary, customer_id) ==
    IF history_pairs # <<>> THEN <<Pair("assistant", summary)>>
    ELSE <<Pair("user", <<"Customer ID: ">> \o customer_id)>>

\* streamlit.py main_ui, the branch `if ready:` reached with an API key.
conectar_pressed ==
    /\ \E role \in {s_cliente, s_ejecutivo}, customer_id \in CustomerIds,
          tier \in Tiers, summary \in SummaryTexts :
         LET client_tier == IF role = s_cliente THEN tier ELSE NoneVal
             paths == compute_history_paths(role, customer_id)
             history_pairs == load_lite_history(fs, paths.lite)
         IN  /\ (role # s_cliente) => (tier = s_normal)
             /\ form' = [api_key |-> <<"key">>, role |-> role,
                         customer_id |-> customer_id]
             /\ session' = [role |-> role, client_tier |-> client_tier,
                            customer_id |-> customer_id,
                            lite_path |-> paths.lite, full_path |-> paths.full,
                            last_why |-> session.last_why,
                            initialized |-> TRUE]
             /\ messages_seq' =
                    initial_messages(messages_seq, history_pairs, summary, customer_id)
    /\ pc' = "idle"
    /\ UNCHANGED <<frontend, state, fs, unwritable, executed, steps, turn>>

\* streamlit.py main_ui, Conectar pressed with an API key on a fresh page.
conectar ==
    /\ pc = "startup"
    /\ frontend = "streamlit"
    /\ conectar_pressed

\* Conectar pressed with an API key on a page that is already connected.
reconectar ==
    /\ pc = "idle"
    /\ frontend = "streamlit"
    /\ conectar_pressed

\* Conectar pressed with the API key field empty: the warning, then st.stop().
conectar_sin_api_key ==
    /\ frontend = "streamlit"
    /\ pc \in {"startup", "idle"}
    /\ \E role \in {s_cliente, s_ejecutivo}, customer_id \in CustomerIds :
         form' = [api_key |-> <<>>, role |-> role, customer_id |-> customer_id]
    /\ UNCHANGED <<frontend, session, messages_seq, state, pc, fs, unwritable,
                   executed, steps, turn>>

\* The meta each front end hands to the graph.
build_meta ==
    IF frontend = "cli"
    THEN [k \in {"customer_id", "lite_history_path", "full_history_path"} |->
            CASE k = "customer_id" -> session.customer_id
              [] k = "lite_history_path" -> session.lite_path
              [] OTHER -> session.full_path]
    ELSE [k \in {"customer_id", "lite_history_path", "full_history_path",
                 "role", "client_tier"} |->
            CASE k = "customer_id" -> session.customer_id
              [] k = "lite_history_path" -> session.lite_path
              [] k = "full_history_path" -> session.full_path
              [] k = "role" -> session.role
              [] OTHER -> session.client_tier]

\* A query is typed: the front end builds state_in and invokes the graph,
\* which starts at its entry point our_agent.
ask ==
    /\ pc = "idle"
    /\ (frontend = "streamlit") => session.initialized
    /\ steps < MaxModelCalls
    /\ \E user_q \in UserTexts :
         LET runtime_messages == messages_seq \o <<Pair("user", user_q)>>
         IN  /\ messages_seq' = IF frontend = "cli" THEN runtime_messages
                                ELSE messages_seq
             /\ state' = [messages |-> [i \in 1..Len(runtime_messages) |->
                                           coerce(runtime_messages[i])],
                          meta |-> build_meta]
             /\ turn' = [user_q |-> user_q, n_in |-> Len(runtime_messages), fs |-> fs]
    /\ pc' = "our_agent"
    /\ UNCHANGED <<form, frontend, session, fs, unwritable, executed, steps>>

\* The front ends' search, backwards, for the newest assistant message.
RECURSIVE oldest_assistant_text(_)
oldest_assistant_text(msgs) ==
    IF msgs = <<>> THEN NoneVal
    ELSE IF _get_role(Head(msgs)) \in {"assistant", "ai"} THEN _get_text(Head(msgs))
    ELSE oldest_assistant_text(Tail(msgs))

RECURSIVE newest_assistant_text(_)
newest_assistant_text(msgs) ==
    IF msgs = <<>> THEN NoneVal
    ELSE IF _get_role(Last(msgs)) \in {"assistant", "ai"} THEN _get_text(Last(msgs))
    ELSE newest_assistant_text(SubSeq(msgs, 1, Len(msgs) - 1))

\* The newest assistant text as found, with no text for a missing one.
assistant_text_of_as_found(final_state) ==
    newest_assistant_text(final_state.messages)

assistant_text_of(final_state) ==
    LET t == newest_assistant_text(final_state.messages)
    IN  IF truthy(t) THEN t ELSE <<"(Sin respuesta)">>

\* streamlit.py: final_state.get("meta", {}).get("last_why", "")
last_why_of(final_state) ==
    IF "last_why" \in DOMAIN final_state.meta THEN final_state.meta["last_why"]
    ELSE <<>>

\* app.invoke has returned: the answer is shown and kept; the Streamlit
\* page also keeps last_why for its panel.
answer ==
    /\ pc = "END"
    /\ session' = IF frontend = "cli" THEN session
                  ELSE [session EXCEPT !.last_why = last_why_of(state)]
    /\ LET assistant_text == assistant_text_of(state)
       IN  messages_seq' =
               IF frontend = "cli"
               THEN messages_seq \o <<Pair("assistant", assistant_text)>>
               ELSE messages_seq \o <<Pair("user", turn.user_q),
                                       Pair("assistant", assistant_text)>>
    /\ pc' = "idle"
    /\ UNCHANGED <<form, frontend, state, fs, unwritable, executed, steps, turn>>

(***************************************************************************)
(* The agent specification                                                 *)
(***************************************************************************)

\* What the lite history files hold when the program starts.
InitialLite ==
    { <<>>,
      p_user \o <<" ">> \o s_hi \o <<"\n">> \o p_assistant \o <<" ">> \o <<"o", "k", "\n">> }

UnwritableChoices == { {}, AllPaths }

otherVars == <<gtr, lt, fx, tcall, churn>>

OtherIdle ==
    /\ gtr = [role |-> NoneVal, client_tier |-> NoneVal, done |-> TRUE, result |-> <<>>]
    /\ lt = [written |-> <<>>, loaded |-> TRUE, pairs |-> <<>>]
    /\ fx = EmptyDict
    /\ tcall = <<>>
    /\ churn = EmptyDict

Init ==
    /\ frontend \in {"cli", "streamlit"}
    /\ session = NoSession
    /\ messages_seq = <<>>
    /\ state = NoState
    /\ pc = "startup"
    /\ \E lite \in InitialLite :
         fs = [p \in AllPaths |-> IF p \in LitePaths THEN lite ELSE <<>>]
    /\ unwritable \in UnwritableChoices
    /\ executed = <<>>
    /\ steps = 0
    /\ turn = NoTurn
    /\ form = NoForm
    /\ OtherIdle

Next ==
    \/ (cli_startup /\ UNCHANGED otherVars)
    \/ (conectar /\ UNCHANGED otherVars)
    \/ (ask /\ UNCHANGED otherVars)
    \/ (model_call /\ UNCHANGED otherVars)
    \/ (route /\ UNCHANGED otherVars)
    \/ (tools_with_logging /\ UNCHANGED otherVars)
    \/ (answer /\ UNCHANGED otherVars)

Spec == Init /\ [][Next]_vars


\* The graph engine runs the conditional edge as soon as our_agent returns.
FairSpec == Spec /\ WF_vars(route /\ UNCHANGED otherVars)

(***************************************************************************)
(* Claims about the agent graph                                            *)
(***************************************************************************)

\* The messages the current run has added to its input.
RunMessages == SubSeq(state.messages, turn.n_in + 1, Len(state.messages))

InRun == pc \in {"our_agent", "should_continue", "tools", "END"}

HasToolCalls(msg) == msg.tool_calls # <<>>

\* C1: a run starts at our_agent; after our_agent the conditional edge is
\* taken, to tools exactly when the newest response carries a tool call and
\* to END otherwise; tools is always followed by our_agent, and END is
\* reached only from the edge after our_agent, never from tools.
C1_GraphOrder ==
    [][ /\ (pc = "idle" /\ pc' # "idle") => (pc' = "our_agent")
        /\ (pc = "our_agent" /\ pc' # pc) => (pc' = "should_continue")
        /\ (pc = "should_continue" /\ pc' # pc) =>
              IF HasToolCalls(Last(state.messages)) THEN pc' = "tools" ELSE pc' = "END"
        /\ (pc = "tools" /\ pc' # pc) => (pc' = "our_agent")
        /\ (pc' = "END" /\ pc # "END") =>
              (pc = "should_continue" /\ Last(state.messages).type = "ai")
      ]_vars

\* A run that went through tools and back to our_agent has ended.
C1_Witness ==
    /\ pc = "END"
    /\ \E i \in 1..Len(RunMessages) : RunMessages[i].type = "tool"

\* C2 (as claimed): in a Streamlit session every tool the tools node has run
\* is one get_tools_for_role(role, client_tier) allows that session.
C2_OnlyAllowedToolsRun ==
    (frontend = "streamlit" /\ pc # "startup") =>
        \A i \in 1..Len(executed) :
            executed[i] \in Range(get_tools_for_role(session.role, session.client_tier))

\* C4: during a run the conversation only grows at its end: our_agent adds
\* exactly one assistant message, tools adds exactly the tool results of the
\* newest assistant message, the edge adds nothing; and every batch of tool
\* results stands right after the assistant message that asked for it and
\* right before the next assistant message.
C4_StepAppends ==
    /\ (pc = "our_agent" /\ pc' # pc) =>
          /\ Len(state'.messages) = Len(state.messages) + 1
          /\ IsPrefix(state.messages, state'.messages)
          /\ Last(state'.messages).type = "ai"
    /\ (pc = "should_continue") => (state'.messages = state.messages)
    /\ (pc = "tools" /\ pc' # pc) =>
          LET calls == Last(state.messages).tool_calls
              n == Len(state.messages)
          IN  /\ IsPrefix(state.messages, state'.messages)
              /\ Len(state'.messages) = n + Len(calls)
              /\ \A j \in 1..Len(calls) :
                    /\ state'.messages[n + j].type = "tool"
                    /\ state'.messages[n + j].name = <<calls[j]>>
    /\ (pc = "END") => (state'.messages = state.messages)

C4_BatchesInPlace ==
    InRun =>
        \A i \in (turn.n_in + 1)..Len(state.messages) :
            LET m == state.messages[i]
                k == Len(m.tool_calls)
                n == Len(state.messages)
            IN  (m.type = "ai" /\ k > 0) =>
                    \/ (i = n /\ pc \in {"should_continue", "tools"})
                    \/ /\ i + k <= n
                       /\ \A j \in 1..k :
                             /\ state.messages[i + j].type = "tool"
                             /\ state.messages[i + j].name = <<m.tool_calls[j]>>
                       /\ (i + k < n) => (state.messages[i + k + 1].type = "ai")
                       /\ (i + k = n) => (pc = "our_agent")

C4_AppendOnly == [][C4_StepAppends]_vars /\ []C4_BatchesInPlace

\* A finished run holding a batch of two tool results between two responses.
C4_Witness ==
    /\ pc = "END"
    /\ \E i \in 1..(Len(RunMessages) - 1) :
          RunMessages[i].type = "tool" /\ RunMessages[i + 1].type = "tool"

\* C5: a response without tool calls ends the run, and when the run has
\* ended the last message is that response, which is what the front ends'
\* backwards search for the newest assistant message returns.
C5_FinalIsLastResponse ==
    (pc = "END") =>
        LET m == Last(state.messages)
        IN  /\ Len(state.messages) > turn.n_in
            /\ m.type = "ai"
            /\ ~HasToolCalls(m)
            /\ newest_assistant_text(state.messages) = m.content

C5_Terminates ==
    /\ []C5_FinalIsLastResponse
    /\ (pc = "should_continue" /\ ~HasToolCalls(Last(state.messages))) ~> (pc = "END")

\* A run has ended after tool rounds, with earlier assistant texts in the
\* conversation that differ from the final one.
C5_Witness ==
    /\ pc = "END"
    /\ \E i \in 1..(Len(state.messages) - 1) :
          /\ state.messages[i].type = "ai"
          /\ state.messages[i].content # Last(state.messages).content
    /\ \E i \in 1..Len(RunMessages) : RunMessages[i].type = "tool"


(***************************************************************************)
(* Claims about the history files                                          *)
(***************************************************************************)

\* What a file has gained since app.invoke was called.
Gained(path) == SubSeq(fs[path], Len(turn.fs[path]) + 1, Len(fs[path]))

Line(text) == text \o <<"\n">>

RECURSIVE Flatten(_)
Flatten(lines) == IF lines = <<>> THEN <<>> ELSE Head(lines) \o Flatten(Tail(lines))

\* The lines the claim C6 expects the lite history to gain in a run: the
\* user's line, then one line per assistant response with text.
RECURSIVE AssistantLiteLines(_)
AssistantLiteLines(msgs) ==
    IF msgs = <<>> THEN <<>>
    ELSE LET m == Head(msgs)
         IN  (IF m.type = "ai" /\ strip(m.content) # <<>>
              THEN <<Line(p_assistant \o <<" ">> \o strip(m.content))>> ELSE <<>>)
             \o AssistantLiteLines(Tail(msgs))

ExpectedLiteLines ==
    <<Line(p_user \o <<" ">> \o turn.user_q)>> \o AssistantLiteLines(RunMessages)

\* C6 (as claimed): when a run with a writable lite history has ended, the
\* file has gained the user's line followed by the line of each assistant
\* response that has text.  Stated for the runs in which some response has
\* text, whatever the number of tool rounds before it.
C6_LiteKeepsBothSides ==
    (/\ pc = "END"
     /\ session.lite_path \notin unwritable
     /\ AssistantLiteLines(RunMessages) # <<>>) =>
        Gained(session.lite_path) = Flatten(ExpectedLiteLines)

\* The lines the full history gains for the messages of a run, as C8 states
\* them; i is the index of the message in the conversation.
FullLinesOf(msgs, i) ==
    LET m == msgs[i]
    IN  IF m.type = "ai"
        THEN (IF i > 1 /\ msgs[i - 1].type = "human"
              THEN <<Line(<<"USER: ">> \o msgs[i - 1].content)>> ELSE <<>>)
             \o (IF m.tool_calls # <<>>
                 THEN <<Line(why_text(m.tool_calls))>> ELSE <<>>)
             \o (IF strip(m.content) # <<>>
                 THEN <<Line(<<"ASSISTANT: ">> \o strip(m.content))>> ELSE <<>>)
        ELSE IF m.type = "tool"
        THEN <<Line(<<"TOOL:">> \o m.name \o <<" -> ">> \o m.content)>>
        ELSE <<>>

RECURSIVE ExpectedFullLines(_, _, _)
ExpectedFullLines(msgs, from, to) ==
    IF from > to THEN <<>>
    ELSE FullLinesOf(msgs, from) \o ExpectedFullLines(msgs, from + 1, to)

IsUserLine(line) == line # <<>> /\ line[1] = "USER: "

\* C8: with a writable full history, what the file has gained at any point of
\* a run is, message by message, USER (only for the response that follows the
\* user's message), WHY (only with tool calls), ASSISTANT (only with text),
\* and one TOOL line per tool result; so once the first response is logged
\* the gained lines start with the user's line and hold no other USER line.
C8_FullHistoryOrder ==
    (InRun /\ session.full_path \notin unwritable) =>
        LET lines == ExpectedFullLines(state.messages, turn.n_in + 1, Len(state.messages))
        IN  /\ Gained(session.full_path) = Flatten(lines)
            /\ (RunMessages # <<>>) =>
                  /\ lines[1] = Line(<<"USER: ">> \o turn.user_q)
                  /\ \A j \in 2..Len(lines) : ~IsUserLine(lines[j])

\* A run of two tool rounds has ended with the full history writable.
C8_Witness ==
    /\ pc = "END"
    /\ session.full_path \notin unwritable
    /\ Cardinality({i \in 1..Len(RunMessages) : RunMessages[i].type = "ai"}) = 3
    /\ \E i \in 1..Len(RunMessages) :
          RunMessages[i].type = "ai" /\ strip(RunMessages[i].content) = <<>>


(***************************************************************************)
(* get_tools_for_role on drawn inputs                                      *)
(***************************************************************************)

\* The agent is not running in the specifications of the pure functions.
AgentOff ==
    /\ frontend = "cli"
    /\ session = NoSession
    /\ messages_seq = <<>>
    /\ state = NoState
    /\ pc = "off"
    /\ fs = [p \in AllPaths |-> <<>>]
    /\ unwritable = {}
    /\ executed = <<>>
    /\ steps = 0
    /\ turn = NoTurn
    /\ form = NoForm

\* Spellings of the executive roles, of other roles, and of the tiers.
ExecutiveSpellings ==
    { s_ejecutivo, s_executive, s_ex,
      <<"E", "j", "e", "c", "u", "t", "i", "v", "o">>,
      <<"E", "X", "E", "C", "U", "T", "I", "V", "E">>,
      <<"E", "x">>, <<"e", "X">> }

OtherRoles ==
    { NoneVal, <<>>, s_cliente, <<"C", "L", "I", "E", "N", "T", "E">>,
      <<"e", "x", "e", "c">>, <<" ", "e", "x">>, s_premium }

PremiumSpellings ==
    { s_premium, s_vip, <<"P", "r", "e", "m", "i", "u", "m">>,
      <<"P", "R", "E", "M", "I", "U", "M">>, <<"V", "I", "P">>, <<"V", "i", "p">> }

OtherTiers ==
    { NoneVal, <<>>, s_normal, <<"N", "o", "r", "m", "a", "l">>,
      <<"v", "i", "p", " ">>, <<"p", "r", "e", "m">>, s_ejecutivo }

RoleInputs == ExecutiveSpellings \cup OtherRoles

TierInputs == PremiumSpellings \cup OtherTiers

InitRole ==
    /\ AgentOff
    /\ \E role \in RoleInputs, tier \in TierInputs :
         gtr = [role |-> role, client_tier |-> tier, done |-> FALSE, result |-> <<>>]
    /\ lt = [written |-> <<>>, loaded |-> TRUE, pairs |-> <<>>]
    /\ fx = EmptyDict
    /\ tcall = <<>>
    /\ churn = EmptyDict

call_get_tools_for_role ==
    /\ ~gtr.done
    /\ gtr' = [gtr EXCEPT !.done = TRUE,
                          !.result = get_tools_for_role(gtr.role, gtr.client_tier)]
    /\ UNCHANGED <<agentVars, lt, fx, tcall, churn>>

NextRole == call_get_tools_for_role

SpecRole == InitRole /\ [][NextRole]_vars

\* sub is TOOLS with some of its members left out, in TOOLS' order.
IsSubListOfTools(sub) ==
    sub = SelectSeq(TOOLS, LAMBDA t : t \in Range(sub))

\* C3: the list returned is TOOLS_BASIC + TOOLS_EXECUTIVE for any spelling of
\* an executive role whatever the tier, TOOLS_BASIC + TOOLS_CLIENT_PREMIUM
\* for any other role with any spelling of premium or vip, TOOLS_BASIC
\* otherwise (None and "" included); it holds every basic tool, is a sub-list
\* of TOOLS and never holds premium and executive tools together.
C3_ToolsForRole ==
    gtr.done =>
        /\ gtr.result =
              IF gtr.role \in ExecutiveSpellings THEN TOOLS_BASIC \o TOOLS_EXECUTIVE
              ELSE IF gtr.client_tier \in PremiumSpellings
                   THEN TOOLS_BASIC \o TOOLS_CLIENT_PREMIUM
              ELSE TOOLS_BASIC
        /\ Range(TOOLS_BASIC) \subseteq Range(gtr.result)
        /\ IsSubListOfTools(gtr.result)
        /\ \/ Range(gtr.result) \cap Range(TOOLS_CLIENT_PREMIUM) = {}
           \/ Range(gtr.result) \cap Range(TOOLS_EXECUTIVE) = {}

\* An executive role in mixed case with a premium tier got the executive list.
C3_Witness ==
    /\ gtr.done
    /\ gtr.role = <<"E", "j", "e", "c", "u", "t", "i", "v", "o">>
    /\ gtr.client_tier = <<"V", "I", "P">>
    /\ gtr.result = TOOLS_BASIC \o TOOLS_EXECUTIVE


(***************************************************************************)
(* The lite history: written by model_call, read back at start-up          *)
(***************************************************************************)

\* Model steps whose writes are read back.
MaxLiteSteps == 2

s_a_nl_b == <<"a", "\n", "b">>

\* Texts of the user and of the assistant: one line, padded, two lines, and
\* two lines of which the second looks like a line of the file.
LiteUserTexts == {s_hi, s_a_nl_b}

LiteModelTexts ==
    { <<>>, s_ok, s_a_nl_b, <<"a", "\n">> \o p_user \o <<"b">> }

LitePath == cli_history_paths(<<"CUST001">>).lite

lite_meta ==
    [k \in {"lite_history_path"} |-> LitePath]

InitLite ==
    /\ AgentOff
    /\ lt = [written |-> <<>>, loaded |-> FALSE, pairs |-> <<>>]
    /\ gtr = [role |-> NoneVal, client_tier |-> NoneVal, done |-> TRUE, result |-> <<>>]
    /\ fx = EmptyDict
    /\ tcall = <<>>
    /\ churn = EmptyDict

\* One model step of some run; lt.written records the messages handed to
\* _append(lite_path, ...), in order.
lite_model_step ==
    /\ ~lt.loaded
    /\ Len(lt.written) < 2 * MaxLiteSteps
    /\ \E user_text \in LiteUserTexts, content \in LiteModelTexts, after_user \in BOOLEAN :
         LET st == [messages |-> IF after_user
                                 THEN <<HumanMessage(user_text)>>
                                 ELSE <<HumanMessage(user_text),
                                        AIMessage(<<>>, <<"calculate_clv">>),
                                        ToolMessage("calculate_clv", tool_result("calculate_clv"))>>,
                    meta |-> lite_meta]
             response == AIMessage(content, <<>>)
             msg_text == strip(content)
         IN  /\ fs' = model_call_log(fs, st, response)
             /\ lt' = [lt EXCEPT !.written =
                          @ \o (IF msg_text # <<>> /\ after_user
                                THEN <<Pair("user", user_text)>> ELSE <<>>)
                            \o (IF msg_text # <<>>
                                THEN <<Pair("assistant", msg_text)>> ELSE <<>>)]
    /\ UNCHANGED <<form, frontend, session, messages_seq, state, pc, unwritable, executed,
                   steps, turn, gtr, fx, tcall, churn>>

\* The next start-up reads the file back.
lite_load ==
    /\ ~lt.loaded
    /\ lt' = [lt EXCEPT !.loaded = TRUE, !.pairs = load_lite_history(fs, LitePath)]
    /\ UNCHANGED <<agentVars, gtr, fx, tcall, churn>>

NextLite == lite_model_step \/ lite_load

SpecLite == InitLite /\ [][NextLite]_vars

\* C7 (as claimed): what the loader yields is, in order, the messages written,
\* each with its role and its text up to surrounding whitespace.
C7_LiteRoundTrip ==
    lt.loaded =>
        lt.pairs = [i \in 1..Len(lt.written) |->
                       Pair(lt.written[i].role, strip(lt.written[i].text))]


(***************************************************************************)
(* app_tools: the fixture loaders and the deterministic tools              *)
(*                                                                         *)
(* A dict is a function on its keys.  Money is in cents, percentages of    *)
(* market.json in tenths, a date is its day number.  A score in [0, 1] is  *)
(* counted in units of 1 / ScoreUnit, chosen so that every product and     *)
(* quotient the code forms is exact.                                       *)
(***************************************************************************)

ScoreUnit == 1500

\* The decimal n / d as a score.
Dec(n, d) == (n * ScoreUnit) \div d

Min2(a, b) == IF a <= b THEN a ELSE b

Max2(a, b) == IF a >= b THEN a ELSE b

\* round(n / d) for d > 0: to the nearest integer, a tie to the even one.
round_div(n, d) ==
    LET q == n \div d
        r == n % d
    IN  IF 2 * r < d THEN q
        ELSE IF 2 * r > d THEN q + 1
        ELSE IF q % 2 = 0 THEN q ELSE q + 1

\* dict.get(key, default)
get(d, key, default) == IF key \in DOMAIN d THEN d[key] ELSE default

\* What a tool call yields when the tool raises.
Raised(text) == [raised |-> text]

CUSTOMERS_JSON_PATH == "customers.json"

\* common.py _load_json, csv readers and json.load: the file as it is on
\* disk at the time of the call.
_load_json_stale(disk, path) ==
    IF tcall # <<>> THEN tcall[1].fx[path] ELSE disk[path]

_load_json(disk, path) == disk[path]

_read_csv(disk, path) == _load_json(disk, path)

load_customers(disk) == get(_load_json(disk, CUSTOMERS_JSON_PATH), "customers", <<>>)

\* A lookup that falls back to the first record on file.
find_customer_or_first(disk, customer_id) ==
    LET customers == load_customers(disk)
        hits == {i \in 1..Len(customers) :
                    get(customers[i], "customer_id", NoneVal) = customer_id}
    IN  IF hits # {} THEN <<customers[CHOOSE i \in hits : \A j \in hits : i <= j]>>
        ELSE IF customers = <<>> THEN <<>> ELSE <<customers[1]>>

\* common.py find_customer: <<>> for None, <<c>> for a record.
find_customer(disk, customer_id) ==
    LET customers == load_customers(disk)
        hits == {i \in 1..Len(customers) :
                    get(customers[i], "customer_id", NoneVal) = customer_id}
    IN  IF hits = {} THEN <<>>
        ELSE <<customers[CHOOSE i \in hits : \A j \in hits : i <= j]>>

\* churn.py: the clamp of the score to [0, 1].
no_clamp(score) == score

clamp_score(score) == Max2(0, Min2(ScoreUnit, score))

\* churn.py calculate_churn_risk; churn_risk is in thousandths.
calculate_churn_risk(disk, customer_id) ==
    LET found == find_customer(disk, customer_id)
    IN  IF found = <<>> THEN Raised(<<"Customer not found: ">> \o customer_id)
        ELSE
        LET customer == found[1]
            days_since == get(customer, "days_since_last_login", 999)
            sessions == get(customer, "app_sessions_last_90d", 0)
            churn_signals == or_empty_dict(get(customer, "churn_signals", EmptyDict))
            s_days == IF days_since <= 30 THEN (days_since * Dec(4, 10)) \div 30
                      ELSE IF days_since <= 60
                           THEN Dec(4, 10) + ((days_since - 30) * Dec(4, 10)) \div 30
                      ELSE Dec(8, 10)
            session_penalty ==
                (Max2(0, 100 - Min2(sessions, 100)) * Dec(2, 10)) \div 100
            complaints == get(churn_signals, "complaints_last_6m", 0)
            s_complaints == IF complaints > 0
                            THEN Min2(Dec(2, 10), complaints * Dec(5, 100)) ELSE 0
            salary_moved_out == get(churn_signals, "salary_moved_out", FALSE)
            s_salary == IF salary_moved_out THEN Dec(2, 10) ELSE 0
            trend == get(churn_signals, "balance_trend", "stable")
            s_trend == IF trend = "down" THEN Dec(15, 100)
                       ELSE IF trend = "up" THEN 0 - Dec(5, 100) ELSE 0
            score == clamp_score(s_days + session_penalty + s_complaints
                                   + s_salary + s_trend)
        IN  [churn_risk |-> round_div(score * 1000, ScoreUnit),
             drivers |-> [days_since_last_login |-> days_since,
                          app_sessions_last_90d |-> sessions,
                          complaints_last_6m |-> complaints,
                          salary_moved_out |-> salary_moved_out,
                          balance_trend |-> trend]]

\* llm_tools.py executive_kyc_overview
executive_kyc_overview(disk, customer_id) ==
    LET found == find_customer(disk, customer_id)
    IN  IF found = <<>> THEN [error |-> "Customer not found"]
        ELSE LET c == found[1]
             IN  [why |-> "Consolida campos KYC y perfil basico.",
                  kyc_profile |->
                     [customer_id |-> get(c, "customer_id", NoneVal),
                      name |-> get(c, "name", NoneVal),
                      age |-> get(c, "age", NoneVal),
                      credit_score |-> get(c, "credit_score", NoneVal),
                      tier |-> get(c, "tier", NoneVal), kyc |-> get(c, "kyc", EmptyDict),
                      products |-> get(c, "products", <<>>)]]

\* out.sort(key=lambda r: r["_dt"]): a stable sort.
RECURSIVE insert_by_dt(_, _)
insert_by_dt(sorted, r) ==
    IF sorted = <<>> THEN <<r>>
    ELSE IF Last(sorted)["_dt"] <= r["_dt"] THEN Append(sorted, r)
    ELSE Append(insert_by_dt(SubSeq(sorted, 1, Len(sorted) - 1), r), Last(sorted))

RECURSIVE sort_by_dt(_)
sort_by_dt(rows) ==
    IF rows = <<>> THEN <<>>
    ELSE insert_by_dt(sort_by_dt(SubSeq(rows, 1, Len(rows) - 1)), Last(rows))

\* transactions_tools.py _tx_for_customer: the customer's rows, each with its
\* parsed date, by date.
_tx_for_customer(disk, customer_id) ==
    LET rows == _read_csv(disk, "transactions.csv")
        out == SelectSeq(rows, LAMBDA r : get(r, "customer_id", NoneVal) = customer_id)
    IN  sort_by_dt([i \in 1..Len(out) |-> ("_dt" :> out[i]["date"]) @@ out[i]])

RECURSIVE sum_amounts(_)
sum_amounts(rows) ==
    IF rows = <<>> THEN 0 ELSE Head(rows)["amount"] + sum_amounts(Tail(rows))

\* transactions_tools.py summarize_transactions; amounts in cents.
summarize_transactions(disk, customer_id) ==
    LET tx == _tx_for_customer(disk, customer_id)
        total_amount == sum_amounts(tx)
        count == Len(tx)
        avg == IF count > 0 THEN round_div(total_amount, count) ELSE 0
        success_count ==
            Len(SelectSeq(tx, LAMBDA r : get(r, "status", "") = "success"))
    IN  [total_amount |-> total_amount, transaction_count |-> count,
         average_amount |-> avg, successful_transactions |-> success_count]

\* market_intelligence.py analyze_market_condition; percentages in tenths.
analyze_market_condition(disk) ==
    LET market == _load_json(disk, "market.json")
        macro == get(market, "macro", EmptyDict)
        sectors == get(market, "sectors", EmptyDict)
        outlook1 == IF get(macro, "gdp_growth_qoq_pct", 0) > 5
                       /\ get(macro, "inflation_yoy_pct", 0) < 40
                    THEN "positive" ELSE "neutral"
        outlook == IF get(macro, "unemployment_pct", 0) > 65 THEN "cautious" ELSE outlook1
    IN  [macro |-> macro, sectors |-> sectors, outlook |-> outlook]


(***************************************************************************)
(* The tools called on fixtures that change between calls                  *)
(***************************************************************************)

Customer1 ==
    [customer_id |-> <<"CUST001">>, name |-> <<"Ana">>, age |-> 34,
     credit_score |-> 700, tier |-> s_premium, kyc |-> [status |-> "verified"],
     products |-> <<"checking", "savings">>,
     days_since_last_login |-> 12, app_sessions_last_90d |-> 40,
     churn_signals |-> [complaints_last_6m |-> 1, salary_moved_out |-> FALSE,
                        balance_trend |-> "down"]]

Customer2 ==
    [customer_id |-> <<"CUST002">>, name |-> <<"Luis">>, age |-> 51,
     credit_score |-> 610, tier |-> s_normal, kyc |-> [status |-> "pending"],
     products |-> <<"checking">>, days_since_last_login |-> 45]

Transactions ==
    << [customer_id |-> <<"CUST001">>, date |-> 20, amount |-> 12000, status |-> "success"],
       [customer_id |-> <<"CUST002">>, date |-> 11, amount |-> 900, status |-> "success"],
       [customer_id |-> <<"CUST001">>, date |-> 5, amount |-> 2501, status |-> "failed"] >>

Market ==
    [macro |-> [gdp_growth_qoq_pct |-> 6, inflation_yoy_pct |-> 35, unemployment_pct |-> 50],
     sectors |-> [equities |-> [volatility_index |-> 2]]]

FixtureFiles ==
    {"customers.json", "transactions.csv", "payments.csv", "debts.csv",
     "market.json", "competition.csv", "sentiment.csv"}

\* The fixtures as shipped.
BaseFixtures ==
    [f \in FixtureFiles |->
        CASE f = "customers.json" -> [customers |-> <<Customer1, Customer2>>]
          [] f = "transactions.csv" -> Transactions
          [] f = "market.json" -> Market
          [] OTHER -> <<>>]

\* Edits made to the files from outside the program, between calls.
edit_customers(disk, days) ==
    [disk EXCEPT !["customers.json"].customers[1].days_since_last_login = days]

edit_credit_score(disk, credit_score) ==
    [disk EXCEPT !["customers.json"].customers[1].credit_score = credit_score]

edit_transactions(disk, amount) ==
    [disk EXCEPT !["transactions.csv"][1].amount = amount]

edit_market(disk, pct) ==
    [disk EXCEPT !["market.json"].macro.unemployment_pct = pct]

DaysEdits == {12, 70}
CreditScoreEdits == {700, 640}
AmountEdits == {12000, 499}
UnemploymentEdits == {50, 70}

edit_fixture ==
    /\ \/ \E days \in DaysEdits : fx' = edit_customers(fx, days)
       \/ \E credit_score \in CreditScoreEdits : fx' = edit_credit_score(fx, credit_score)
       \/ \E amount \in AmountEdits : fx' = edit_transactions(fx, amount)
       \/ \E pct \in UnemploymentEdits : fx' = edit_market(fx, pct)
    /\ fx' # fx
    /\ UNCHANGED <<agentVars, gtr, lt, tcall, churn>>

\* The deterministic tools modelled, and what each is called with.
ModelledTools ==
    {"calculate_churn_risk", "executive_kyc_overview", "summarize_transactions",
     "analyze_market_condition"}

ToolArgs(tool) ==
    IF tool = "analyze_market_condition" THEN {<<>>}
    ELSE {<<"CUST001">>, <<"CUST999">>}

\* tool.invoke(args) on the files as they are.
run_tool(disk, tool, args) ==
    CASE tool = "calculate_churn_risk" -> calculate_churn_risk(disk, args)
      [] tool = "executive_kyc_overview" -> executive_kyc_overview(disk, args)
      [] tool = "summarize_transactions" -> summarize_transactions(disk, args)
      [] tool = "analyze_market_condition" -> analyze_market_condition(disk)

\* A tool is invoked; tcall keeps this call and the one before it, each with
\* the files as they were on disk at the call.
invoke_tool ==
    /\ \E tool \in ModelledTools : \E args \in ToolArgs(tool) :
         tcall' = <<[tool |-> tool, args |-> args, fx |-> fx,
                     result |-> run_tool(fx, tool, args)]>>
                    \o (IF tcall = <<>> THEN <<>> ELSE <<tcall[1]>>)
    /\ UNCHANGED <<agentVars, gtr, lt, fx, churn>>

InitTools ==
    /\ AgentOff
    /\ gtr = [role |-> NoneVal, client_tier |-> NoneVal, done |-> TRUE, result |-> <<>>]
    /\ lt = [written |-> <<>>, loaded |-> TRUE, pairs |-> <<>>]
    /\ fx = BaseFixtures
    /\ tcall = <<>>
    /\ churn = EmptyDict

NextTools == invoke_tool \/ edit_fixture

SpecTools == InitTools /\ [][NextTools]_vars


\* What is on disk for the first customer, the first transaction and the
\* market, read straight from the files.
DiskDays(disk) == disk["customers.json"].customers[1].days_since_last_login
DiskCreditScore(disk) == disk["customers.json"].customers[1].credit_score
DiskAmount(disk) == disk["transactions.csv"][1].amount
DiskUnemployment(disk) == disk["market.json"].macro.unemployment_pct

\* A tool step leaves every fixture file as it was.
C9_ToolsLeaveFixtures == (tcall' # tcall) => (fx' = fx)

\* Two calls in a row with equal arguments on unchanged files give equal
\* results.
C9_Deterministic ==
    (Len(tcall) = 2 /\ tcall[1].tool = tcall[2].tool /\ tcall[1].args = tcall[2].args
        /\ tcall[1].fx = tcall[2].fx)
    => (tcall[1].result = tcall[2].result)

\* The newest call shows what the files held when it was made.
C9_SeesFilesAtCall ==
    (tcall # <<>>) =>
        LET c == tcall[1]
        IN  /\ (c.tool = "calculate_churn_risk" /\ c.args = <<"CUST001">>) =>
                  /\ c.result.drivers.days_since_last_login = DiskDays(c.fx)
                  /\ c.result.churn_risk = (IF DiskDays(c.fx) = 12 THEN 480 ELSE 1000)
            /\ (c.tool = "executive_kyc_overview" /\ c.args = <<"CUST001">>) =>
                  c.result.kyc_profile.credit_score = DiskCreditScore(c.fx)
            /\ (c.tool = "summarize_transactions" /\ c.args = <<"CUST001">>) =>
                  c.result.total_amount = DiskAmount(c.fx) + 2501
            /\ (c.tool = "analyze_market_condition") =>
                  /\ c.result.macro.unemployment_pct = DiskUnemployment(c.fx)
                  /\ c.result.outlook =
                        (IF DiskUnemployment(c.fx) = 70 THEN "cautious" ELSE "positive")

DaysValues == {<<>>, <<0 - 10>>, <<0>>, <<15>>, <<30>>, <<31>>, <<60>>, <<61>>, <<999>>}
SessionsValues == {<<>>, <<0 - 50>>, <<0>>, <<40>>, <<100>>, <<250>>}
ComplaintsValues == {<<>>, <<0 - 1>>, <<0>>, <<1>>, <<3>>, <<4>>, <<9>>}
SalaryValues == {<<>>, <<TRUE>>, <<FALSE>>}
TrendValues == {<<>>, <<"down">>, <<"up">>, <<"stable">>, <<"flat">>}

field(key, value) == IF value = <<>> THEN EmptyDict ELSE key :> value[1]

ChurnSignals ==
    {field("complaints_last_6m", c) @@ field("salary_moved_out", s)
        @@ field("balance_trend", t) :
        c \in ComplaintsValues, s \in SalaryValues, t \in TrendValues}

ChurnSignalsValues == {<<>>, <<JsonNull>>} \cup {<<d>> : d \in ChurnSignals}

ChurnCustomers ==
    {("customer_id" :> <<"CUST001">>) @@ field("days_since_last_login", d)
        @@ field("app_sessions_last_90d", n) @@ field("churn_signals", g) :
        d \in DaysValues, n \in SessionsValues, g \in ChurnSignalsValues}

\* customers.json holding the record under test after another customer.
ChurnDisk(customer) ==
    [BaseFixtures EXCEPT !["customers.json"] = [customers |-> <<Customer2, customer>>]]

InitChurn ==
    /\ AgentOff
    /\ gtr = [role |-> NoneVal, client_tier |-> NoneVal, done |-> TRUE, result |-> <<>>]
    /\ lt = [written |-> <<>>, loaded |-> TRUE, pairs |-> <<>>]
    /\ fx = EmptyDict
    /\ tcall = <<>>
    /\ \E customer \in ChurnCustomers :
         churn = [customer |-> customer, result |-> <<>>]

call_calculate_churn_risk ==
    /\ churn.result = <<>>
    /\ churn' = [churn EXCEPT !.result =
                    <<calculate_churn_risk(ChurnDisk(churn.customer), <<"CUST001">>)>>]
    /\ UNCHANGED <<agentVars, gtr, lt, fx, tcall>>

NextChurn == call_calculate_churn_risk

SpecChurn == InitChurn /\ [][NextChurn]_vars

\* The signals the code reads for a record.
SignalsOf(customer) ==
    IF "churn_signals" \in DOMAIN customer
           /\ customer["churn_signals"] # JsonNull
    THEN customer["churn_signals"] ELSE EmptyDict

Shown(d, key, default, shown) ==
    IF key \in DOMAIN d THEN shown = d[key] ELSE shown = default

\* C10: for every found customer record, whatever its days_since_last_login,
\* app_sessions_last_90d, complaints_last_6m, salary_moved_out and
\* balance_trend, calculate_churn_risk returns a churn_risk in [0, 1]; a
\* missing field counts as 999 days, 0 sessions, no signals, 'stable'.
C10_ChurnRiskInUnitInterval ==
    (churn.result # <<>>) =>
        LET r == churn.result[1]
            g == SignalsOf(churn.customer)
        IN  /\ "churn_risk" \in DOMAIN r
            /\ 0 <= r.churn_risk /\ r.churn_risk <= 1000
            /\ Shown(churn.customer, "days_since_last_login", 999,
                     r.drivers.days_since_last_login)
            /\ Shown(churn.customer, "app_sessions_last_90d", 0,
                     r.drivers.app_sessions_last_90d)
            /\ Shown(g, "complaints_last_6m", 0, r.drivers.complaints_last_6m)
            /\ Shown(g, "salary_moved_out", FALSE, r.drivers.salary_moved_out)
            /\ Shown(g, "balance_trend", "stable", r.drivers.balance_trend)

\* A record without a login date, with every signal against it: the raw score
\* is 1.55 and the result is 1.
C10_Witness ==
    /\ churn.result # <<>>
    /\ "days_since_last_login" \notin DOMAIN churn.customer
    /\ "app_sessions_last_90d" \notin DOMAIN churn.customer
    /\ SignalsOf(churn.customer) =
          [complaints_last_6m |-> 9, salary_moved_out |-> TRUE, balance_trend |-> "down"]
    /\ churn.result[1].churn_risk = 1000


(***************************************************************************)
(* The scoring tools, each called once on a drawn customer record          *)
(***************************************************************************)

\* Nothing but the tool under study runs.
ToolsIdle ==
    /\ AgentOff
    /\ gtr = [role |-> NoneVal, client_tier |-> NoneVal, done |-> TRUE, result |-> <<>>]
    /\ lt = [written |-> <<>>, loaded |-> TRUE, pairs |-> <<>>]
    /\ churn = EmptyDict

\* What tcall holds after one call of a tool on the files as they are.
Called(tool, args, result) ==
    <<[tool |-> tool, args |-> args, fx |-> fx, result |-> result]>>

IsRaised(result) == "raised" \in DOMAIN result

KnownId == <<"CUST001">>
UnknownId == <<"CUST999">>

(***************************************************************************)
(* calculate_engagement                                                    *)
(***************************************************************************)

\* An engagement score is counted in units of 1 / EngUnit, in which every
\* component the code forms is exact.
EngUnit == 30

\* round(x, 1) of a score, in tenths.
round1(x) == round_div(x * 10, EngUnit)

\* engagement.py: total = max(0.0, min(100.0, total))
no_clamp_total(total) == total

clamp_total(total) == Max2(0, Min2(100 * EngUnit, total))

\* engagement.py calculate_engagement; the scores returned are in tenths.
calculate_engagement(disk, customer_id) ==
    LET found == find_customer(disk, customer_id)
    IN  IF found = <<>> THEN Raised(<<"Customer not found: ">> \o customer_id)
        ELSE
        LET customer == found[1]
            sessions_90d == get(customer, "app_sessions_last_90d", 0)
            push_opens_90d == get(customer, "push_opens_last_90d", 0)
            days_since == get(customer, "days_since_last_login", 999)
            \* min(1.0, n / 100.0) * 50.0
            sessions_score == (Min2(100, sessions_90d) * 50 * EngUnit) \div 100
            \* min(1.0, n / 50.0) * 30.0
            push_score == (Min2(50, push_opens_90d) * 30 * EngUnit) \div 50
            \* max(0.0, 1.0 - min(days, 30) / 30.0) * 20.0
            recency_score == (Max2(0, 30 - Min2(days_since, 30)) * 20 * EngUnit) \div 30
            total == clamp_total(sessions_score + push_score + recency_score)
        IN  [engagement_score |-> round1(total),
             components |-> [sessions_score |-> round1(sessions_score),
                             push_score |-> round1(push_score),
                             recency_score |-> round1(recency_score)]]

PushValues == {<<>>, <<0 - 5>>, <<0>>, <<25>>, <<50>>, <<80>>}

EngagementCustomers ==
    {("customer_id" :> KnownId) @@ field("app_sessions_last_90d", n)
        @@ field("push_opens_last_90d", p) @@ field("days_since_last_login", d) :
        n \in SessionsValues, p \in PushValues, d \in DaysValues}

InitEngagement ==
    /\ ToolsIdle
    /\ tcall = <<>>
    /\ \E customer \in EngagementCustomers : fx = ChurnDisk(customer)

call_calculate_engagement ==
    /\ tcall = <<>>
    /\ tcall' = Called("calculate_engagement", KnownId, calculate_engagement(fx, KnownId))
    /\ UNCHANGED <<agentVars, gtr, lt, fx, churn>>

NextEngagement == call_calculate_engagement

SpecEngagement == InitEngagement /\ [][NextEngagement]_vars

\* The record the tool was called on.
Subject(disk) == disk["customers.json"].customers[2]

\* A counter of the record, or what the code takes when it is missing.
Counter(customer, key, default) ==
    IF key \in DOMAIN customer THEN customer[key] ELSE default

\* C11: engagement_score lies in [0, 100] for every found record; when the
\* counters are non-negative it is, to the rounding of one decimal, the sum
\* 50 * min(1, sessions/100) + 30 * min(1, pushes/50)
\* + 20 * (1 - min(days, 30)/30), whose three terms lie in [0, 50], [0, 30]
\* and [0, 20]; a record without a login date (999 days) has recency_score 0.
C11_EngagementScore ==
    (tcall # <<>>) =>
        LET r == tcall[1].result
            customer == Subject(tcall[1].fx)
            n == Counter(customer, "app_sessions_last_90d", 0)
            p == Counter(customer, "push_opens_last_90d", 0)
            d == Counter(customer, "days_since_last_login", 999)
            c == r.components
        IN  /\ 0 <= r.engagement_score /\ r.engagement_score <= 1000
            /\ (n >= 0 /\ p >= 0 /\ d >= 0) =>
                 /\ 0 <= c.sessions_score /\ c.sessions_score <= 500
                 /\ 0 <= c.push_score /\ c.push_score <= 300
                 /\ 0 <= c.recency_score /\ c.recency_score <= 200
                 \* thirty times the sum, and the score within rounding of it
                 /\ LET sum30 == 15 * Min2(n, 100) + 18 * Min2(p, 50)
                                    + 20 * (30 - Min2(d, 30))
                    IN  3 * r.engagement_score - sum30 \in -1..1
            /\ ("days_since_last_login" \notin DOMAIN customer) => c.recency_score = 0


\* 40 sessions, 25 opened pushes, last login 15 days ago: 20 + 15 + 10 = 45.
C11_Witness ==
    /\ tcall # <<>>
    /\ tcall[1].tool = "calculate_engagement"
    /\ DOMAIN Subject(tcall[1].fx) = {"customer_id", "days_since_last_login",
                                       "app_sessions_last_90d", "push_opens_last_90d"}
    /\ Subject(tcall[1].fx)["app_sessions_last_90d"] = 40
    /\ Subject(tcall[1].fx)["push_opens_last_90d"] = 25
    /\ Subject(tcall[1].fx)["days_since_last_login"] = 15
    /\ tcall[1].result.engagement_score = 450

(***************************************************************************)
(* transactions_tools.py and financial_behaviour.py: payments, anomalies,  *)
(* financial behaviour.  Amounts here are whole units; a rate or a         *)
(* z-score is given in the decimals the code rounds it to.                 *)
(***************************************************************************)

\* The largest k in lo..hi with k * k * d <= n (lo is one such k).
RECURSIVE floor_sqrt(_, _, _, _)
floor_sqrt(n, d, lo, hi) ==
    IF lo >= hi THEN lo
    ELSE LET mid == (lo + hi + 1) \div 2
         IN  IF mid * mid * d <= n THEN floor_sqrt(n, d, mid, hi)
             ELSE floor_sqrt(n, d, lo, mid - 1)

\* round((n / d) ** 0.5) for n >= 0, d > 0, the root being at most hi.
round_sqrt(n, d, hi) ==
    LET k == floor_sqrt(n, d, 0, hi)
    IN  IF (2 * k + 1) * (2 * k + 1) * d <= 4 * n THEN k + 1 ELSE k

RECURSIVE sum_of(_)
sum_of(xs) == IF xs = <<>> THEN 0 ELSE Head(xs) + sum_of(Tail(xs))

s_true == <<"t", "r", "u", "e">>

\* r.get("on_time", "False").lower() == "true"
on_time_flag(r) == lower(get(r, "on_time", <<"F", "a", "l", "s", "e">>)) = s_true

\* transactions_tools.py payment_behavior; on_time_rate in thousandths.
payment_behavior(disk, customer_id) ==
    LET rows == _read_csv(disk, "payments.csv")
        pays == SelectSeq(rows, LAMBDA r : get(r, "customer_id", NoneVal) = customer_id)
        records == Len(pays)
        on_time == Len(SelectSeq(pays, on_time_flag))
        total == sum_of([i \in 1..records |-> pays[i]["amount"]])
    IN  IF pays = <<>> THEN [on_time_rate |-> 0, summary |-> "no payment records"]
        ELSE [on_time_rate |-> round_div(1000 * on_time, records),
              average_payment_amount |-> round_div(100 * total, records),
              summary |-> IF 100 * on_time >= 85 * records THEN "reliable payer"
                          ELSE IF 10 * on_time >= 6 * records THEN "inconsistent"
                          ELSE "often late",
              records |-> records]

\* The statistics taken over every transaction of the customer, successful or
\* not.
success_amounts_all(tx) == [i \in 1..Len(tx) |-> tx[i]["amount"]]

\* amounts = [r["amount"] for r in tx if r.get("status") == "success"]
success_amounts(tx) ==
    LET ok == SelectSeq(tx, LAMBDA r : get(r, "status", "") = "success")
    IN  [i \in 1..Len(ok) |-> ok[i]["amount"]]

\* transactions_tools.py detect_transaction_anomalies.  With n amounts of sum
\* S, n * n * var is V = n * sum(a * a) - S * S and z is (n * a - S) / V ** 0.5;
\* z_threshold, the z of an anomaly, mean and std are in hundredths.
detect_transaction_anomalies(disk, customer_id, z_threshold) ==
    LET tx == _tx_for_customer(disk, customer_id)
        amounts == success_amounts(tx)
        n == Len(amounts)
        S == sum_of(amounts)
        V == n * sum_of([i \in 1..n |-> amounts[i] * amounts[i]]) - S * S
        std_is_0 == ~(V > 0)
        dev(r) == n * r["amount"] - S
        \* abs(z) >= z_threshold
        beyond(r) ==
            IF std_is_0 THEN 0 >= z_threshold
            ELSE \/ z_threshold <= 0
                 \/ 10000 * dev(r) * dev(r) >= z_threshold * z_threshold * V
        z100(r) ==
            IF std_is_0 THEN 0
            ELSE LET k == round_sqrt(10000 * dev(r) * dev(r), V, 100 * n)
                 IN  IF dev(r) < 0 THEN 0 - k ELSE k
        hits == SelectSeq(tx, LAMBDA r : get(r, "status", "") = "success" /\ beyond(r))
    IN  IF n < 3 THEN [anomalies |-> <<>>]
        ELSE [mean |-> round_div(100 * S, n),
              std |-> IF std_is_0 THEN 0 ELSE round_sqrt(10000 * V, n * n, 100 * S),
              threshold |-> z_threshold,
              anomalies |-> [i \in 1..Len(hits) |->
                                <<hits[i]["date"], hits[i]["amount"], z100(hits[i])>>]]

\* financial_behaviour.py financial_behaviour_analysis; the rates returned
\* are in thousandths.
financial_behaviour_analysis(disk, customer_id) ==
    LET found == find_customer(disk, customer_id)
    IN  IF found = <<>> THEN Raised(<<"Customer not found: ">> \o customer_id)
        ELSE
        LET customer == found[1]
            monthly_income == get(customer, "monthly_income", 0)
            mine(r) == get(r, "customer_id", NoneVal) = customer_id
            tx == SelectSeq(_read_csv(disk, "transactions.csv"),
                            LAMBDA r : mine(r) /\ get(r, "status", "") = "success")
            pays == SelectSeq(_read_csv(disk, "payments.csv"), mine)
            debts == SelectSeq(_read_csv(disk, "debts.csv"), mine)
            amounts_to(merchant) ==
                LET rows == SelectSeq(tx, LAMBDA r : get(r, "merchant", "") = merchant)
                IN  sum_of([i \in 1..Len(rows) |-> rows[i]["amount"]])
            total_spend == sum_of([i \in 1..Len(tx) |-> tx[i]["amount"]])
            savings == amounts_to("Savings")
            invest == amounts_to("Investment")
            monthly_debt_service ==
                IF debts # <<>> THEN get(debts[1], "monthly_debt_service", 0) ELSE 0
            has_dti == monthly_income > 0
            on_time == Len(SelectSeq(pays, on_time_flag))
            fragile == \/ has_dti /\ 10 * monthly_debt_service >= 4 * monthly_income
                       \/ pays = <<>>
                       \/ 2 * on_time < Len(pays)
            strong == /\ total_spend > 0 /\ 100 * savings >= 15 * total_spend
                      /\ pays # <<>> /\ 10 * on_time >= 9 * Len(pays)
                      /\ (has_dti => 10 * monthly_debt_service < 2 * monthly_income)
        IN  [saving_rate |-> IF total_spend > 0
                             THEN round_div(1000 * savings, total_spend) ELSE 0,
             investment_appetite |-> IF total_spend > 0
                                     THEN round_div(1000 * invest, total_spend) ELSE 0,
             debt_to_income |-> IF has_dti
                                THEN round_div(1000 * monthly_debt_service, monthly_income)
                                ELSE 0,
             payment_reliability |-> IF pays # <<>>
                                     THEN round_div(1000 * on_time, Len(pays)) ELSE 0,
             summary_rating |-> IF fragile THEN "fragile"
                                ELSE IF strong THEN "strong" ELSE "balanced"]

(***************************************************************************)
(* risk_assessor.py: the overall risk score                                *)
(***************************************************************************)

\* risk_assessor.py: dti_risk = min(1.0, dti)
dti_uncapped(dti) == dti

dti_risk_of(dti) == Min2(1000, dti)

\* risk_assessor.py overall_risk_score_calculator; scores in thousandths.  An
\* exception of a tool it invokes ends the call.
overall_of(churn_result, pay_result, fin, found) ==
        IF IsRaised(churn_result) THEN churn_result
        ELSE IF IsRaised(fin) THEN fin
        ELSE
        LET churn_risk == get(churn_result, "churn_risk", 500)
            pay == get(pay_result, "on_time_rate", 500)
            dti == get(fin, "debt_to_income", 300)
            anomalies == get(found, "anomalies", <<>>)
            pay_risk == 1000 - pay
            dti_risk == dti_risk_of(dti)
            anomaly_risk == Min2(1000, Len(anomalies) * 100)
        IN  [overall_risk_score |->
                round_div(churn_risk + pay_risk + dti_risk + anomaly_risk, 4)]

\* risk_assessor.py overall_risk_score_calculator: the four tools it
\* invokes, in the order it invokes them, then the score of their results.
overall_risk_score_calculator(disk, customer_id) ==
    overall_of(calculate_churn_risk(disk, customer_id),
               payment_behavior(disk, customer_id),
               financial_behaviour_analysis(disk, customer_id),
               detect_transaction_anomalies(disk, customer_id, 200))

\* Buckets that leave the two threshold scores in the middle.
category_of_exclusive(overall) ==
        IF IsRaised(overall) THEN overall
        ELSE LET score == get(overall, "overall_risk_score", 500)
             IN  [risk_category |-> IF score > 700 THEN "high"
                                    ELSE IF score < 350 THEN "low" ELSE "medium"]

\* categorize_risk on the result of overall_risk_score_calculator
category_of(overall) ==
        IF IsRaised(overall) THEN overall
        ELSE LET score == get(overall, "overall_risk_score", 500)
             IN  [risk_category |-> IF score >= 700 THEN "high"
                                    ELSE IF score <= 350 THEN "low" ELSE "medium"]

\* risk_assessor.py categorize_risk
categorize_risk(disk, customer_id) ==
    category_of(overall_risk_score_calculator(disk, customer_id))

IncomeValues == {<<>>, <<0>>, <<500>>, <<2000>>}
DebtValues == {<<>>, <<0 - 100>>, <<0>>, <<300>>, <<3000>>}

s_True == <<"T", "r", "u", "e">>
s_False == <<"F", "a", "l", "s", "e">>

Payment(customer_id, amount, on_time) ==
    [customer_id |-> customer_id, amount |-> amount, on_time |-> on_time]

PaymentFiles ==
    { <<>>,
      <<Payment(<<"CUST002">>, 90, s_True)>>,
      <<Payment(KnownId, 50, s_True)>>,
      <<Payment(KnownId, 50, s_False), Payment(<<"CUST002">>, 90, s_True)>>,
      <<Payment(KnownId, 50, <<"T", "R", "U", "E">>), Payment(KnownId, 70, <<"n", "o">>),
        Payment(KnownId, 30, s_True)>> }

Tx(customer_id, date, amount, status, merchant) ==
    [customer_id |-> customer_id, date |-> date, amount |-> amount,
     status |-> status, merchant |-> merchant]

\* No rows; five successful rows of which the newest stands out, among rows
\* of another customer and a failed one; three even rows.
TransactionFiles ==
    { <<>>,
      << Tx(KnownId, 9, 20, "success", "Investment"), Tx(<<"CUST002">>, 2, 12, "success", "Shop"),
         Tx(KnownId, 1, 10, "success", "Savings"), Tx(KnownId, 3, 10, "success", "Shop"),
         Tx(KnownId, 4, 20, "failed", "Shop"), Tx(KnownId, 5, 10, "success", "Shop"),
         Tx(KnownId, 7, 10, "success", "Shop") >>,
      << Tx(KnownId, 1, 10, "success", "Savings"), Tx(KnownId, 2, 10, "success", "Shop"),
         Tx(KnownId, 3, 10, "success", "Shop") >> }

RiskCustomers ==
    {("customer_id" :> KnownId) @@ field("days_since_last_login", d)
        @@ field("app_sessions_last_90d", n) @@ field("monthly_income", m) :
        d \in {<<>>, <<0>>, <<70>>}, n \in {<<>>, <<100>>}, m \in IncomeValues}

debts_file(debt) ==
    IF debt = <<>> THEN <<>>
    ELSE << [customer_id |-> <<"CUST002">>, monthly_debt_service |-> 40],
            [customer_id |-> KnownId, monthly_debt_service |-> debt[1]] >>

RiskDisks ==
    {[ChurnDisk(customer) EXCEPT !["payments.csv"] = pays,
                                 !["transactions.csv"] = txs,
                                 !["debts.csv"] = debts_file(debt)] :
        customer \in RiskCustomers, pays \in PaymentFiles,
        txs \in TransactionFiles, debt \in DebtValues}

InitRisk ==
    /\ ToolsIdle
    /\ tcall = <<>>
    /\ fx \in RiskDisks

call_overall_risk_score_calculator ==
    /\ tcall = <<>>
    /\ tcall' = Called("overall_risk_score_calculator", KnownId,
                       overall_risk_score_calculator(fx, KnownId))
    /\ UNCHANGED <<agentVars, gtr, lt, fx, churn>>

NextRisk == call_overall_risk_score_calculator

SpecRisk == InitRisk /\ [][NextRisk]_vars

\* The customer's debt service on file, 0 without a row.
DebtOnFile(disk) ==
    IF disk["debts.csv"] = <<>> THEN 0 ELSE disk["debts.csv"][2].monthly_debt_service

\* C12: for a found customer with non-negative income and debt service the
\* overall risk score lies in [0, 1] and is the plain mean of four terms, each
\* in [0, 1]: the churn risk, 1 - on-time payment rate, debt-to-income capped
\* at 1, and 0.1 per anomaly capped at 1.
C12_OverallRiskInUnitInterval ==
    (tcall # <<>>) =>
        LET disk == tcall[1].fx
            r == tcall[1].result
            income == Counter(Subject(disk), "monthly_income", 0)
            churn_term == calculate_churn_risk(disk, KnownId).churn_risk
            pay_term == 1000 - payment_behavior(disk, KnownId).on_time_rate
            dti == financial_behaviour_analysis(disk, KnownId).debt_to_income
            dti_term == IF dti > 1000 THEN 1000 ELSE dti
            count == Len(detect_transaction_anomalies(disk, KnownId, 200).anomalies)
            anomaly_term == IF count > 10 THEN 1000 ELSE 100 * count
            terms == <<churn_term, pay_term, dti_term, anomaly_term>>
        IN  (income >= 0 /\ DebtOnFile(disk) >= 0) =>
               /\ \A i \in 1..4 : 0 <= terms[i] /\ terms[i] <= 1000
               /\ 0 <= r.overall_risk_score /\ r.overall_risk_score <= 1000
               /\ 4 * r.overall_risk_score - sum_of(terms) \in -2..2

\* Debt service six times the income, no payment on file, a long absence and
\* one anomaly: the terms are 1, 1, 1 (capped) and 0.1.
C12_Witness ==
    /\ tcall # <<>>
    /\ tcall[1].tool = "overall_risk_score_calculator"
    /\ Counter(Subject(tcall[1].fx), "monthly_income", 0) = 500
    /\ DebtOnFile(tcall[1].fx) = 3000
    /\ financial_behaviour_analysis(tcall[1].fx, KnownId).debt_to_income = 6000
    /\ Len(detect_transaction_anomalies(tcall[1].fx, KnownId, 200).anomalies) = 1
    /\ tcall[1].result.overall_risk_score = 775

(***************************************************************************)
(* clv.py calculate_clv.  Rates are in hundredths, money returned in cents *)
(***************************************************************************)

calculate_clv(disk, customer_id, monthly_retention_rate, monthly_margin_rate, discount_rate_monthly) ==
    LET found == find_customer(disk, customer_id)
    IN  IF found = <<>> THEN Raised(<<"Customer not found: ">> \o customer_id)
        ELSE
        LET tx == get(found[1], "transactions_last_12m", <<>>)
            total == sum_of(tx)
            months == Max2(1, Len(tx))
            r == monthly_retention_rate
            d == discount_rate_monthly
            \* denom = d + (1.0 - r), in hundredths
            denom == d + (100 - r)
            \* clv = arpu_margin * r / denom, in cents; denom = 0.0001 when
            \* d + (1 - r) <= 0
            clv == IF denom <= 0
                   THEN round_div(100 * total * monthly_margin_rate * r, months)
                   ELSE round_div(total * monthly_margin_rate * r, months * denom)
        IN  IF tx = <<>> THEN Raised(<<"transactions_last_12m missing">>)
            ELSE [avg_monthly_spend |-> round_div(100 * total, months),
                  arpu_margin |-> round_div(total * monthly_margin_rate, months),
                  monthly_retention_rate |-> r,
                  discount_rate_monthly |-> d,
                  clv_estimate |-> clv]

SpendValues == {<<>>, <<<<>>>>, <<<<300>>>>, <<<<100, 200, 300>>>>}
RetentionRates == {0, 50, 92, 100}
MarginRates == {0, 25, 100}
DiscountRates == {0, 1, 100}

ClvCustomers ==
    {("customer_id" :> KnownId) @@ field("transactions_last_12m", tx) : tx \in SpendValues}

InitClv ==
    /\ ToolsIdle
    /\ tcall = <<>>
    /\ \E customer \in ClvCustomers : fx = ChurnDisk(customer)

call_calculate_clv ==
    /\ tcall = <<>>
    /\ \E r \in RetentionRates, m \in MarginRates, d \in DiscountRates :
         tcall' = Called("calculate_clv",
                         [customer_id |-> KnownId, monthly_retention_rate |-> r,
                          monthly_margin_rate |-> m, discount_rate_monthly |-> d],
                         calculate_clv(fx, KnownId, r, m, d))
    /\ UNCHANGED <<agentVars, gtr, lt, fx, churn>>

NextClv == call_calculate_clv

SpecClv == InitClv /\ [][NextClv]_vars

\* C13 (as claimed): for a found customer with a non-empty
\* transactions_last_12m and rates in [0, 1], clv_estimate is, to the cent,
\* (ARPU_margin * retention) / (discount - (1 - retention)) with ARPU_margin
\* the average of transactions_last_12m times the margin rate.
C13_ClvFormula ==
    (tcall # <<>> /\ ~IsRaised(tcall[1].result)) =>
        LET a == tcall[1].args
            tx == Subject(tcall[1].fx)["transactions_last_12m"]
            \* discount - (1 - retention), in hundredths
            claimed_denom == a.discount_rate_monthly - (100 - a.monthly_retention_rate)
            \* ARPU_margin * retention * Len(tx), in millionths
            numerator == sum_of(tx) * a.monthly_margin_rate * a.monthly_retention_rate
            \* twice the distance of clv_estimate from the quotient, times the
            \* denominator
            off == 2 * (tcall[1].result.clv_estimate * Len(tx) * claimed_denom - numerator)
            half_cent == Len(tx) * claimed_denom
        IN  (claimed_denom # 0) =>
               IF half_cent > 0 THEN off \in (0 - half_cent)..half_cent
               ELSE off \in half_cent..(0 - half_cent)

(***************************************************************************)
(* risk_profile.py calculate_risk_profile                                  *)
(***************************************************************************)

\* One step up per signal.
raise_level_per_signal(base, score_adjust) ==
    IF base = "low" /\ score_adjust >= 2 THEN "high"
    ELSE IF base = "low" /\ score_adjust >= 1 THEN "medium"
    ELSE IF base = "medium" /\ score_adjust >= 1 THEN "high"
    ELSE base

\* low->medium if +1, medium->high if +1, high stays high
raise_level(base, score_adjust) ==
    IF base = "low" /\ score_adjust >= 1 THEN "medium"
    ELSE IF base = "medium" /\ score_adjust >= 1 THEN "high"
    ELSE base

calculate_risk_profile(disk, customer_id) ==
    LET found == find_customer(disk, customer_id)
    IN  IF found = <<>> THEN Raised(<<"Customer not found: ">> \o customer_id)
        ELSE
        LET customer == found[1]
            credit == get(customer, "credit_score", 0)
            churn_signals == or_empty_dict(get(customer, "churn_signals", EmptyDict))
            complaints == get(churn_signals, "complaints_last_6m", 0)
            salary_out == get(churn_signals, "salary_moved_out", FALSE)
            base == IF credit >= 760 THEN "low"
                    ELSE IF credit < 640 THEN "high" ELSE "medium"
            score_adjust == (IF complaints >= 2 THEN 1 ELSE 0)
                              + (IF salary_out THEN 1 ELSE 0)
        IN  [risk_profile |-> raise_level(base, score_adjust),
             credit_score |-> credit,
             signals |-> [complaints_last_6m |-> complaints,
                          salary_moved_out |-> salary_out]]

CreditValues == {<<>>, <<0>>, <<639>>, <<640>>, <<700>>, <<759>>, <<760>>, <<850>>}

ProfileCustomers ==
    {("customer_id" :> KnownId) @@ field("credit_score", c) @@ field("churn_signals", g) :
        c \in CreditValues, g \in ChurnSignalsValues}

InitProfile ==
    /\ ToolsIdle
    /\ tcall = <<>>
    /\ \E customer \in ProfileCustomers : fx = ChurnDisk(customer)

call_calculate_risk_profile ==
    /\ tcall = <<>>
    /\ tcall' = Called("calculate_risk_profile", KnownId, calculate_risk_profile(fx, KnownId))
    /\ UNCHANGED <<agentVars, gtr, lt, fx, churn>>

NextProfile == call_calculate_risk_profile

SpecProfile == InitProfile /\ [][NextProfile]_vars

Levels == <<"low", "medium", "high">>

\* C14: the profile is low, medium or high.  The base is low for a credit
\* score of 760 or more, high under 640, medium between; with two or more
\* complaints in six months, or the salary moved out, or both, the profile is
\* the base raised by exactly one step (high stays high); otherwise it is
\* the base.
C14_RiskProfileSteps ==
    (tcall # <<>>) =>
        LET customer == Subject(tcall[1].fx)
            g == SignalsOf(customer)
            credit == Counter(customer, "credit_score", 0)
            base == IF credit >= 760 THEN 1 ELSE IF credit < 640 THEN 3 ELSE 2
            signalled == \/ Counter(g, "complaints_last_6m", 0) >= 2
                         \/ Counter(g, "salary_moved_out", FALSE)
            level == IF signalled THEN Min2(3, base + 1) ELSE base
        IN  tcall[1].result.risk_profile = Levels[level]

\* A credit score of 760 with nine complaints and the salary moved out: medium.
C14_Witness ==
    /\ tcall # <<>>
    /\ tcall[1].tool = "calculate_risk_profile"
    /\ Counter(Subject(tcall[1].fx), "credit_score", 0) = 760
    /\ tcall[1].result.signals = [complaints_last_6m |-> 9, salary_moved_out |-> TRUE]
    /\ tcall[1].result.risk_profile = "medium"

(***************************************************************************)
(* affinity.py calculate_product_affinity.  A weight is counted in         *)
(* hundredths of an interaction; an affinity is the fraction num / den     *)
(* (0 / 1 for 0.0), and a rounded affinity is given in ten-thousandths.    *)
(***************************************************************************)

PRODUCTS ==
    <<"checking", "savings", "credit_card", "personal_loan", "mortgage",
      "investment", "insurance">>

\* affinity.py _normalize: the share of each non-negative weight in their sum.
_normalize(scores) ==
    LET total == sum_of([i \in 1..Len(PRODUCTS) |-> Max2(0, scores[PRODUCTS[i]])])
    IN  IF total <= 0 THEN [k \in DOMAIN scores |-> [num |-> 0, den |-> 1]]
        ELSE [k \in DOMAIN scores |-> [num |-> Max2(0, scores[k]), den |-> total]]

\* a >= b for two affinities
AtLeast(a, b) == a.num * b.den >= b.num * a.den

\* sorted(dist.items(), key=lambda kv: kv[1], reverse=True): a stable sort
\* on the items in PRODUCTS' order.
RECURSIVE insert_ranked(_, _)
insert_ranked(ranked, kv) ==
    IF ranked = <<>> THEN <<kv>>
    ELSE IF AtLeast(Last(ranked)[2], kv[2]) THEN Append(ranked, kv)
    ELSE Append(insert_ranked(SubSeq(ranked, 1, Len(ranked) - 1), kv), Last(ranked))

RECURSIVE sort_ranked(_)
sort_ranked(items) ==
    IF items = <<>> THEN <<>>
    ELSE insert_ranked(sort_ranked(SubSeq(items, 1, Len(items) - 1)), Last(items))

\* ranked[: n]
first_n(xs, n) == SubSeq(xs, 1, Min2(Len(xs), n))

\* max(1, int(top_k))
cut(top_k) == Max2(1, top_k)

calculate_product_affinity(disk, customer_id, top_k) ==
    LET found == find_customer(disk, customer_id)
    IN  IF found = <<>> THEN Raised(<<"Customer not found: ">> \o customer_id)
        ELSE
        LET customer == found[1]
            interactions == or_empty_dict(get(customer, "product_interactions", EmptyDict))
            owned == Range(get(customer, "products", <<>>))
            credit == get(customer, "credit_score", 0)
            by_credit(q) ==
                IF credit < 680 THEN (IF q = "personal_loan" THEN 6
                                      ELSE IF q = "mortgage" THEN 7 ELSE 10)
                ELSE IF credit >= 760 /\ q = "investment" THEN 12 ELSE 10
            base == [q \in Range(PRODUCTS) |->
                        get(interactions, q, 0) * (IF q \in owned THEN 7 ELSE 10)
                          * by_credit(q)]
            dist == _normalize(base)
            ranked == sort_ranked([i \in 1..Len(PRODUCTS) |->
                                      <<PRODUCTS[i], dist[PRODUCTS[i]]>>])
        IN  \* base[p] *= 0.7 for an owned p that base does not hold
            IF ~(owned \subseteq Range(PRODUCTS)) THEN Raised(<<"KeyError">>)
            ELSE [affinity_distribution |->
                     [k \in DOMAIN dist |-> round_div(10000 * dist[k].num, dist[k].den)],
                  top_recommendations |-> first_n(ranked, cut(top_k))]

InteractionsValues ==
    { <<>>, <<JsonNull>>, <<EmptyDict>>,
      <<[checking |-> 5, savings |-> 3, credit_card |-> 2]>>,
      <<[checking |-> 1, savings |-> 1, credit_card |-> 1]>>,
      <<[investment |-> 4, mortgage |-> 4, personal_loan |-> 4, crypto |-> 9]>>,
      <<[checking |-> 0 - 2, insurance |-> 0]>> }

ProductsValues ==
    { <<>>, <<<<>>>>, <<<<"checking", "savings">>>>, <<<<"mortgage", "investment">>>>,
      <<<<"checking", "debit_card">>>> }

AffinityCredits == {<<>>, <<679>>, <<680>>, <<759>>, <<760>>}

TopKValues == {0 - 1, 0, 1, 3, 7, 9}

AffinityCustomers ==
    {("customer_id" :> KnownId) @@ field("product_interactions", i)
        @@ field("products", o) @@ field("credit_score", c) :
        i \in InteractionsValues, o \in ProductsValues, c \in AffinityCredits}

InitAffinity ==
    /\ ToolsIdle
    /\ tcall = <<>>
    /\ \E customer \in AffinityCustomers : fx = ChurnDisk(customer)

call_calculate_product_affinity ==
    /\ tcall = <<>>
    /\ \E top_k \in TopKValues :
         tcall' = Called("calculate_product_affinity",
                         [customer_id |-> KnownId, top_k |-> top_k],
                         calculate_product_affinity(fx, KnownId, top_k))
    /\ UNCHANGED <<agentVars, gtr, lt, fx, churn>>

NextAffinity == call_calculate_product_affinity

SpecAffinity == InitAffinity /\ [][NextAffinity]_vars

\* The rounded affinities returned, in PRODUCTS' order.
C15_Values(r) == [i \in 1..Len(PRODUCTS) |-> r.affinity_distribution[PRODUCTS[i]]]

C15_Returns == (tcall # <<>>) => ~IsRaised(tcall[1].result)

C15_SumsToOne ==
    (tcall # <<>> /\ ~IsRaised(tcall[1].result)) =>
        LET values == C15_Values(tcall[1].result)
        IN  \/ sum_of(values) = 10000
            \/ \A i \in 1..Len(values) : values[i] = 0

C15_Shape ==
    (tcall # <<>> /\ ~IsRaised(tcall[1].result)) =>
        LET r == tcall[1].result
            top == r.top_recommendations
        IN  /\ DOMAIN r.affinity_distribution = Range(PRODUCTS)
            /\ \A k \in Range(PRODUCTS) :
                  0 <= r.affinity_distribution[k] /\ r.affinity_distribution[k] <= 10000
            /\ Len(top) = Min2(7, Max2(1, tcall[1].args.top_k))
            /\ \A i \in 1..(Len(top) - 1) : AtLeast(top[i][2], top[i + 1][2])

\* C15 (as claimed): calculate_product_affinity returns a distribution over
\* exactly the seven known products, each value in [0, 1], the values summing
\* to 1 (or all 0 when no interaction weight is positive), and
\* top_recommendations holds exactly min(7, max(1, top_k)) products in
\* non-increasing order of affinity.
C15_AffinityDistribution == C15_Returns /\ C15_SumsToOne /\ C15_Shape

(***************************************************************************)
(* detect_transaction_anomalies on drawn transaction files                 *)
(***************************************************************************)

\* At most this many transactions of the customer are on file.
MaxTx == 5

TxDates == <<3, 1, 5, 2, 4, 7, 6>>
TxAmounts == {10, 12, 20}
TxStatuses == {"success", "failed"}

\* z_threshold in hundredths; 2.0 is the default.
ZThresholds == {0, 100, 150, 200}

\* At most two of the rows on file are failed ones.
StatusColumns(n) ==
    {status \in [1..n -> TxStatuses] :
        Cardinality({i \in 1..n : status[i] = "failed"}) <= 2}

\* transactions.csv: a row of another customer, then the customer's rows,
\* not in date order.
AnomalyFiles ==
    UNION { { <<Tx(<<"CUST002">>, 2, 20, "success", "Shop")>>
                \o [i \in 1..n |-> Tx(KnownId, TxDates[i], amount[i], status[i], "Shop")] :
              amount \in [1..n -> TxAmounts], status \in StatusColumns(n) } :
            n \in {0, 2, 3, MaxTx} }

InitAnomalies ==
    /\ ToolsIdle
    /\ tcall = <<>>
    /\ \E txs \in AnomalyFiles :
         fx = [BaseFixtures EXCEPT !["transactions.csv"] = txs]

call_detect_transaction_anomalies ==
    /\ tcall = <<>>
    /\ \E z_threshold \in ZThresholds :
         tcall' = Called("detect_transaction_anomalies",
                         [customer_id |-> KnownId, z_threshold |-> z_threshold],
                         detect_transaction_anomalies(fx, KnownId, z_threshold))
    /\ UNCHANGED <<agentVars, gtr, lt, fx, churn>>

NextAnomalies == call_detect_transaction_anomalies

SpecAnomalies == InitAnomalies /\ [][NextAnomalies]_vars

\* The customer's rows on file, and the successful ones among them.
RowsOnFile(disk) ==
    SelectSeq(disk["transactions.csv"], LAMBDA r : r.customer_id = KnownId)

SuccessfulOnFile(disk) == SelectSeq(RowsOnFile(disk), LAMBDA r : r.status = "success")

last_n(xs, n) == SubSeq(xs, Max2(1, Len(xs) - n + 1), Len(xs))

\* market_intelligence.py customer_sentiment_overview
customer_sentiment_overview(disk, customer_id) ==
    LET rows == _read_csv(disk, "sentiment.csv")
        events == SelectSeq(rows, LAMBDA r : get(r, "customer_id", NoneVal) = customer_id)
        total == sum_of([i \in 1..Len(events) |-> events[i]["score"]])
        count == Len(events)
    IN  IF events = <<>> THEN [avg_score |-> 0, events |-> <<>>]
        ELSE [avg_score |-> round_div(10 * total, count),
              mood |-> IF total >= 40 * count THEN "positive"
                       ELSE IF total <= (0 - 10) * count THEN "negative"
                       ELSE "neutral",
              events |-> last_n(events, 5)]

\* market_intelligence.py identify_opportunities
identify_opportunities(disk, customer_id) ==
    LET market == analyze_market_condition(disk)
        sentiment == customer_sentiment_overview(disk, customer_id)
    IN  [opportunities |->
            (IF get(market, "outlook", "") = "positive"
             THEN <<"Promote investment products with low fees">> ELSE <<>>)
            \o (IF get(sentiment, "mood", "") \in {"positive", "neutral"}
                THEN <<"Cross-sell high-value credit card">> ELSE <<>>)
            \o <<"Offer savings rate boost for 90 days">>]

\* list.sort(key=lambda x: x[key], reverse=True): a stable sort.
RECURSIVE insert_desc(_, _, _)
insert_desc(sorted, x, key) ==
    IF sorted = <<>> THEN <<x>>
    ELSE IF Last(sorted)[key] >= x[key] THEN Append(sorted, x)
    ELSE Append(insert_desc(SubSeq(sorted, 1, Len(sorted) - 1), x, key), Last(sorted))

RECURSIVE sort_desc(_, _)
sort_desc(items, key) ==
    IF items = <<>> THEN <<>>
    ELSE insert_desc(sort_desc(SubSeq(items, 1, Len(items) - 1), key), Last(items), key)

\* The first exception among the results of the tools invoked in a loop, as
\* <<e>>; <<>> when none raised.
first_raised(results) ==
    LET bad == SelectSeq(results, IsRaised)
    IN  IF bad = <<>> THEN <<>> ELSE <<bad[1]>>

\* ranked.sort(key=..., reverse=True)
rank(items, key) == sort_desc(items, key)

\* llm_tools.py executive_sales_opportunity_identifier
executive_sales_opportunity_identifier(disk) ==
    LET customers == load_customers(disk)
        cid(i) == get(customers[i], "customer_id", NoneVal)
        aff == [i \in 1..Len(customers) |-> calculate_product_affinity(disk, cid(i), 3)]
        eng == [i \in 1..Len(customers) |-> calculate_engagement(disk, cid(i))]
        raised == first_raised([i \in 1..2 * Len(customers) |->
                                   IF i % 2 = 1 THEN aff[(i + 1) \div 2] ELSE eng[i \div 2]])
        ranked == [i \in 1..Len(customers) |->
                     [customer_id |-> cid(i),
                      name |-> get(customers[i], "name", NoneVal),
                      engagement |-> get(eng[i], "engagement_score", 0),
                      suggested |-> first_n(identify_opportunities(disk, cid(i)).opportunities, 2),
                      affinity_top |-> get(aff[i], "top_recommendations", <<>>)]]
    IN  IF raised # <<>> THEN raised[1]
        ELSE [why |-> "Prioriza por engagement y afinidad.",
              opportunities |-> rank(ranked, "engagement")]

\* llm_tools.py executive_advanced_lead_scoring
executive_advanced_lead_scoring(disk, producto_objetivo) ==
    LET customers == load_customers(disk)
        cid(i) == get(customers[i], "customer_id", NoneVal)
        aff == [i \in 1..Len(customers) |-> calculate_product_affinity(disk, cid(i), 7)]
        eng == [i \in 1..Len(customers) |-> calculate_engagement(disk, cid(i))]
        raised == first_raised([i \in 1..2 * Len(customers) |->
                                   IF i % 2 = 1 THEN aff[(i + 1) \div 2] ELSE eng[i \div 2]])
        entry(i) ==
            LET prop == get(get(aff[i], "affinity_distribution", EmptyDict),
                            producto_objetivo, 0)
                e == get(eng[i], "engagement_score", 0)
                sentiment == get(customer_sentiment_overview(disk, cid(i)), "avg_score", 0)
                \* 0.6 * prop + 0.3 * (eng / 100.0) + 0.1 * max(0.0, (sentiment + 1) / 2),
                \* in units of 1 / 200000
                blend == 12 * prop + 60 * e + 10 * Max2(0, sentiment + 1000)
            IN  [customer_id |-> cid(i),
                 name |-> get(customers[i], "name", NoneVal),
                 score |-> round_div(blend, 20),
                 signals |-> [propensity |-> prop, engagement |-> e,
                              sentiment |-> sentiment]]
    IN  IF raised # <<>> THEN raised[1]
        ELSE [why |-> "Score mezcla afinidad, engagement y sentimiento.",
              lead_scoring |-> rank([i \in 1..Len(customers) |-> entry(i)], "score")]

\* Customer records without their id: an active investor, a middling
\* customer, an empty record, and a customer holding a product that is not
\* one of PRODUCTS.
Profiles ==
    { [name |-> <<"Ana">>, app_sessions_last_90d |-> 100, push_opens_last_90d |-> 50,
       days_since_last_login |-> 0, credit_score |-> 760,
       product_interactions |-> [investment |-> 4, checking |-> 1],
       products |-> <<"checking">>],
      [name |-> <<"Luis">>, app_sessions_last_90d |-> 40, push_opens_last_90d |-> 25,
       days_since_last_login |-> 15,
       product_interactions |-> [checking |-> 1, savings |-> 1, credit_card |-> 1],
       products |-> <<>>],
      EmptyDict,
      [name |-> <<"Eva">>, app_sessions_last_90d |-> 40,
       product_interactions |-> [checking |-> 2, investment |-> 2],
       products |-> <<"checking", "debit_card">>] }

PortfolioIds == <<(<<"CUST001">>), (<<"CUST002">>), (<<"CUST003">>)>>

\* customers.json: no customer, or one record per id.
Portfolios ==
    {<<>>} \cup
    { [i \in 1..Len(PortfolioIds) |-> ("customer_id" :> PortfolioIds[i]) @@ profile[i]] :
        profile \in [1..Len(PortfolioIds) -> Profiles] }

Sentiment(customer_id, score) == [customer_id |-> customer_id, score |-> score]

\* sentiment.csv: empty; scores within [-1, 1]; a score of 3.0 among them.
SentimentFiles ==
    { <<>>,
      << Sentiment(<<"CUST001">>, 80), Sentiment(<<"CUST002">>, 0 - 50),
         Sentiment(<<"CUST001">>, 60), Sentiment(<<"CUST003">>, 100) >>,
      << Sentiment(<<"CUST003">>, 300), Sentiment(<<"CUST001">>, 0 - 100) >> }

TargetProducts == {"investment", "checking", "crypto"}

InitPortfolio ==
    /\ ToolsIdle
    /\ tcall = <<>>
    /\ \E customers \in Portfolios, sentiment \in SentimentFiles :
         fx = [BaseFixtures EXCEPT !["customers.json"] = [customers |-> customers],
                                   !["sentiment.csv"] = sentiment]

call_executive_sales_opportunity_identifier ==
    /\ tcall = <<>>
    /\ tcall' = Called("executive_sales_opportunity_identifier", <<>>,
                       executive_sales_opportunity_identifier(fx))
    /\ UNCHANGED <<agentVars, gtr, lt, fx, churn>>

call_executive_advanced_lead_scoring ==
    /\ tcall = <<>>
    /\ \E producto_objetivo \in TargetProducts :
         tcall' = Called("executive_advanced_lead_scoring", producto_objetivo,
                         executive_advanced_lead_scoring(fx, producto_objetivo))
    /\ UNCHANGED <<agentVars, gtr, lt, fx, churn>>

NextPortfolio ==
    \/ call_executive_sales_opportunity_identifier
    \/ call_executive_advanced_lead_scoring

SpecPortfolio == InitPortfolio /\ [][NextPortfolio]_vars

\* The ids on file, and whether every customer's sentiment on file averages
\* within [-1, 1].
IdsOnFile(disk) ==
    LET customers == disk["customers.json"].customers
    IN  {customers[i]["customer_id"] : i \in 1..Len(customers)}

SentimentWithinRange(disk) ==
    \A id \in IdsOnFile(disk) :
        LET rows == SelectSeq(disk["sentiment.csv"], LAMBDA r : r.customer_id = id)
            total == sum_of([i \in 1..Len(rows) |-> rows[i].score])
        IN  (0 - 100) * Len(rows) <= total /\ total <= 100 * Len(rows)

\* The ranking returned: one entry per customer on file, by non-increasing
\* key.
C17_Ranked(disk, entries, key) ==
    /\ Len(entries) = Len(disk["customers.json"].customers)
    /\ {entries[i].customer_id : i \in 1..Len(entries)} = IdsOnFile(disk)
    /\ \A i \in 1..(Len(entries) - 1) : entries[i][key] >= entries[i + 1][key]

\* Whenever the rankings are returned they are complete and ordered, and the
\* lead scores are within [0, 1] for sentiment within [-1, 1].
C17_RankedWhenReturned ==
    (tcall # <<>> /\ ~IsRaised(tcall[1].result)) =>
        LET disk == tcall[1].fx
            r == tcall[1].result
        IN  IF tcall[1].tool = "executive_sales_opportunity_identifier"
            THEN C17_Ranked(disk, r.opportunities, "engagement")
            ELSE /\ C17_Ranked(disk, r.lead_scoring, "score")
                 /\ SentimentWithinRange(disk) =>
                       \A i \in 1..Len(r.lead_scoring) :
                           0 <= r.lead_scoring[i].score /\ r.lead_scoring[i].score <= 10000

\* C17 (as claimed): executive_sales_opportunity_identifier and
\* executive_advanced_lead_scoring each return every customer of the
\* portfolio exactly once, by non-increasing engagement score and blended
\* lead score respectively, and the lead score lies in [0, 1] whenever the
\* average sentiment lies in [-1, 1].
C17_PortfolioRankings ==
    /\ (tcall # <<>>) => ~IsRaised(tcall[1].result)
    /\ C17_RankedWhenReturned

(***************************************************************************)
(* risk_assessor.py: the composite tools, and every customer tool called   *)
(* with an id that may be absent from customers.json                       *)
(***************************************************************************)

\* risk_assessor.py risk_factors
factors_of(churn_result, fin, pay, anomalies) ==
        IF IsRaised(churn_result) THEN churn_result
        ELSE IF IsRaised(fin) THEN fin
        ELSE [factors |->
                (IF get(churn_result, "churn_risk", 0) >= 600
                 THEN <<"Elevated churn risk">> ELSE <<>>)
                \o (IF get(fin, "debt_to_income", 0) >= 400
                    THEN <<"High debt-to-income">> ELSE <<>>)
                \o (IF get(pay, "on_time_rate", 1000) < 700
                    THEN <<"Poor payment reliability">> ELSE <<>>)
                \o (IF get(anomalies, "anomalies", <<>>) # <<>>
                    THEN <<"Transaction anomalies detected">> ELSE <<>>)]

\* risk_assessor.py risk_factors
risk_factors(disk, customer_id) ==
    factors_of(calculate_churn_risk(disk, customer_id),
               financial_behaviour_analysis(disk, customer_id),
               payment_behavior(disk, customer_id),
               detect_transaction_anomalies(disk, customer_id, 200))

\* word in f.lower(), for the factors risk_factors can name
contains(f, word) ==
    \/ f = "Elevated churn risk" /\ word = "churn"
    \/ f = "High debt-to-income" /\ word = "debt-to-income"
    \/ f = "Poor payment reliability" /\ word = "payment"
    \/ f = "Transaction anomalies detected" /\ word = "anomalies"

\* list(dict.fromkeys(recs)): the first occurrence of each element, in order.
RECURSIVE dedupe(_)
dedupe(xs) ==
    IF xs = <<>> THEN <<>>
    ELSE LET init == dedupe(SubSeq(xs, 1, Len(xs) - 1))
         IN  IF Last(xs) \in Range(init) THEN init ELSE Append(init, Last(xs))

RECURSIVE flatten(_)
flatten(xss) == IF xss = <<>> THEN <<>> ELSE Head(xss) \o flatten(Tail(xss))

\* recommend_mitigation on the result of risk_factors
mitigations_of(found) ==
        IF IsRaised(found) THEN found
        ELSE
        LET fac == get(found, "factors", <<>>)
            for(f) ==
                (IF contains(f, "churn")
                 THEN <<"Proactive outreach with tailored offers">> ELSE <<>>)
                \o (IF contains(f, "debt-to-income")
                    THEN <<"Restructure debt, offer lower-rate consolidation">> ELSE <<>>)
                \o (IF contains(f, "payment")
                    THEN <<"Set up autopay reminders and grace options">> ELSE <<>>)
                \o (IF contains(f, "anomalies")
                    THEN <<"Enhanced monitoring and KYC review">> ELSE <<>>)
            recs == flatten([i \in 1..Len(fac) |-> for(fac[i])])
        IN  [mitigations |->
                first_n(dedupe(IF recs = <<>>
                               THEN <<"Maintain current strategy; periodic review">>
                               ELSE recs), 6)]

\* risk_assessor.py recommend_mitigation
recommend_mitigation(disk, customer_id) ==
    mitigations_of(risk_factors(disk, customer_id))

\* define_monitoring on the result of categorize_risk
monitoring_of(found) ==
        IF IsRaised(found) THEN found
        ELSE LET cat == get(found, "risk_category", "medium")
             IN  [monitoring_frequency |-> IF cat = "high" THEN "weekly"
                                           ELSE IF cat = "low" THEN "quarterly"
                                           ELSE "monthly"]

\* risk_assessor.py define_monitoring
define_monitoring(disk, customer_id) ==
    monitoring_of(categorize_risk(disk, customer_id))

\* risk_assessor.py business_impact; clv in cents, overall in thousandths.
impact_of(overall_result, clv_result) ==
        IF IsRaised(overall_result) THEN overall_result
        ELSE IF IsRaised(clv_result) THEN clv_result
        ELSE LET overall == get(overall_result, "overall_risk_score", 500)
                 clv == get(clv_result, "clv_estimate", 0)
             IN  [impact_tier |-> IF clv >= 300000 /\ overall >= 600 THEN "high"
                                  ELSE IF clv < 150000 /\ overall < 400 THEN "low"
                                  ELSE "moderate",
                  clv |-> clv, overall_risk |-> overall]

\* risk_assessor.py business_impact with the default rates of calculate_clv
business_impact(disk, customer_id) ==
    impact_of(overall_risk_score_calculator(disk, customer_id),
              calculate_clv(disk, customer_id, 92, 25, 1))

\* The tools that take a customer and, directly or through the tools they
\* invoke, look the customer up.
CustomerTools ==
    {"calculate_clv", "calculate_churn_risk", "calculate_engagement",
     "calculate_product_affinity", "calculate_risk_profile",
     "financial_behaviour_analysis", "overall_risk_score_calculator",
     "categorize_risk", "define_monitoring", "risk_factors",
     "recommend_mitigation", "business_impact"}

\* tool.invoke({"customer_id": customer_id}), other arguments at their defaults.
invoke_customer_tool(disk, tool, customer_id) ==
    CASE tool = "calculate_clv" -> calculate_clv(disk, customer_id, 92, 25, 1)
      [] tool = "calculate_churn_risk" -> calculate_churn_risk(disk, customer_id)
      [] tool = "calculate_engagement" -> calculate_engagement(disk, customer_id)
      [] tool = "calculate_product_affinity" -> calculate_product_affinity(disk, customer_id, 3)
      [] tool = "calculate_risk_profile" -> calculate_risk_profile(disk, customer_id)
      [] tool = "financial_behaviour_analysis" -> financial_behaviour_analysis(disk, customer_id)
      [] tool = "overall_risk_score_calculator" -> overall_risk_score_calculator(disk, customer_id)
      [] tool = "categorize_risk" -> categorize_risk(disk, customer_id)
      [] tool = "define_monitoring" -> define_monitoring(disk, customer_id)
      [] tool = "risk_factors" -> risk_factors(disk, customer_id)
      [] tool = "recommend_mitigation" -> recommend_mitigation(disk, customer_id)
      [] tool = "business_impact" -> business_impact(disk, customer_id)

\* A full record for the known id.
Customer1Full ==
    ("transactions_last_12m" :> <<300, 500>>) @@ ("monthly_income" :> 2000)
        @@ ("push_opens_last_90d" :> 25)
        @@ ("product_interactions" :> [investment |-> 4, checking |-> 1]) @@ Customer1

CustomerFiles == {<<>>, <<Customer2>>, <<Customer2, Customer1Full>>}

\* The csv files: empty, or holding rows of the known id and of an id that
\* customers.json does not have.
CsvFiles ==
    { [payments |-> <<>>, transactions |-> <<>>, debts |-> <<>>, sentiment |-> <<>>],
      [payments |-> <<Payment(UnknownId, 50, s_True), Payment(KnownId, 50, s_False)>>,
       transactions |-> << Tx(UnknownId, 1, 10, "success", "Savings"),
                           Tx(UnknownId, 2, 10, "success", "Shop"),
                           Tx(UnknownId, 3, 20, "success", "Shop"),
                           Tx(KnownId, 4, 12, "success", "Shop") >>,
       debts |-> << [customer_id |-> UnknownId, monthly_debt_service |-> 40] >>,
       sentiment |-> << Sentiment(UnknownId, 80) >>] }

InitLookup ==
    /\ ToolsIdle
    /\ tcall = <<>>
    /\ \E customers \in CustomerFiles, csv \in CsvFiles :
         fx = [BaseFixtures EXCEPT !["customers.json"] = [customers |-> customers],
                                   !["payments.csv"] = csv.payments,
                                   !["transactions.csv"] = csv.transactions,
                                   !["debts.csv"] = csv.debts,
                                   !["sentiment.csv"] = csv.sentiment]

call_customer_tool ==
    /\ tcall = <<>>
    /\ \E tool \in CustomerTools, customer_id \in {KnownId, UnknownId} :
         tcall' = Called(tool, customer_id, invoke_customer_tool(fx, tool, customer_id))
    /\ UNCHANGED <<agentVars, gtr, lt, fx, churn>>

NextLookup == call_customer_tool

SpecLookup == InitLookup /\ [][NextLookup]_vars

\* C18: called with an id that customers.json does not have, each of
\* calculate_clv, calculate_churn_risk, calculate_engagement,
\* calculate_product_affinity, calculate_risk_profile and
\* financial_behaviour_analysis raises 'Customer not found', and each of
\* overall_risk_score_calculator, categorize_risk, define_monitoring,
\* risk_factors, recommend_mitigation and business_impact ends with that
\* error instead of a result.
C18_UnknownCustomerRaises ==
    (tcall # <<>> /\ tcall[1].args \notin IdsOnFile(tcall[1].fx)) =>
        /\ DOMAIN tcall[1].result = {"raised"}
        /\ tcall[1].result.raised = <<"Customer not found: ">> \o tcall[1].args

\* business_impact called for an id that has payments, transactions and a
\* debt on file but no record in customers.json.
C18_Witness ==
    /\ tcall # <<>>
    /\ tcall[1].tool = "business_impact"
    /\ tcall[1].args = UnknownId
    /\ tcall[1].fx["customers.json"].customers # <<>>
    /\ tcall[1].fx["payments.csv"] # <<>>
    /\ IsRaised(tcall[1].result)

(***************************************************************************)
(* The agent: the WHY panel and meta                                       *)
(***************************************************************************)

\* The responses of the run that asked for tools.
ToolRequests == SelectSeq(RunMessages, LAMBDA m : m.type = "ai" /\ HasToolCalls(m))

\* A turn of the Streamlit page has been answered.
StreamlitAnswered ==
    frontend = "streamlit" /\ pc = "idle" /\ turn.user_q # NoneVal

\* C19: once a turn of the Streamlit page in which the agent asked for tools
\* has been answered, last_why of the session, which the panel
\* 'Herramientas ejecutadas' shows, is the WHY text naming the tools one of
\* the responses of that turn asked for.
C19_WhyPersisted ==
    (StreamlitAnswered /\ ToolRequests # <<>>) =>
        session.last_why \in
            {why_text(_tool_call_names(ToolRequests[i].tool_calls)) :
                i \in 1..Len(ToolRequests)}

\* C20: neither node changes meta, and throughout a run of the graph, its
\* final state included, meta is the dictionary the front end handed in.
C20_NodeKeepsMeta ==
    (pc \in {"our_agent", "tools"}) => state'.meta = state.meta

C20_MetaAsHandedIn == InRun => state.meta = build_meta

AssistantAt(msgs) == {i \in 1..Len(msgs) : msgs[i].type \in {"assistant", "ai"}}

\* The text a front end shows for a final state.
ShownText(msgs) ==
    IF AssistantAt(msgs) = {} THEN <<"(Sin respuesta)">>
    ELSE LET n == CHOOSE i \in AssistantAt(msgs) : \A j \in AssistantAt(msgs) : j <= i
         IN  IF msgs[n].content = <<>> THEN <<"(Sin respuesta)">> ELSE msgs[n].content

\* The message the graph receives for a pair of the conversation.
Received(pair, msg) ==
    /\ msg.content = pair.text
    /\ msg.type = IF pair.role = "user" THEN "human" ELSE "ai"

\* A query is handed to the graph: the graph receives the whole conversation
\* and then the query; the CLI notes the query at once.
C21_Asked ==
    (pc = "idle" /\ pc' = "our_agent") =>
        /\ Len(state'.messages) = Len(messages_seq) + 1
        /\ \A i \in 1..Len(messages_seq) : Received(messages_seq[i], state'.messages[i])
        /\ Received(Pair("user", turn'.user_q), Last(state'.messages))
        /\ messages_seq' = IF frontend = "cli"
                           THEN messages_seq \o <<Pair("user", turn'.user_q)>>
                           ELSE messages_seq

\* While the graph runs the conversation is left alone.
C21_Running ==
    (pc \in {"our_agent", "should_continue", "tools"}) => messages_seq' = messages_seq

\* The run has returned: the conversation of before the query, the query,
\* one assistant text.
C21_Answered ==
    (pc = "END" /\ pc' = "idle") =>
        LET before == IF frontend = "cli"
                      THEN SubSeq(messages_seq, 1, Len(messages_seq) - 1)
                      ELSE messages_seq
        IN  /\ (frontend = "cli") => Last(messages_seq) = Pair("user", turn.user_q)
            /\ Len(before) + 1 = turn.n_in
            /\ messages_seq' = before \o <<Pair("user", turn.user_q),
                                           Pair("assistant", ShownText(state.messages))>>

\* C21: in both front ends each handled query adds the user's text and then
\* exactly one assistant text to the conversation in memory (the content of
\* the newest assistant message of the final state, or '(Sin respuesta)'
\* when there is none or it is empty), and each invocation of the agent
\* receives the whole conversation so far, in order, followed by the new
\* user message.
C21_ConversationInStep == [][C21_Asked /\ C21_Running /\ C21_Answered]_vars

\* Two queries have been answered on the Streamlit page, the first with an
\* empty final response, and the third has just been handed to the graph.
C21_Witness ==
    /\ frontend = "streamlit"
    /\ pc = "our_agent"
    /\ Len(messages_seq) = 5
    /\ messages_seq[2] = Pair("user", s_hi)
    /\ messages_seq[3] = Pair("assistant", <<"(Sin respuesta)">>)
    /\ messages_seq[5] = Pair("assistant", s_ok)
    /\ Len(state.messages) = 6
    /\ state.messages[6] = HumanMessage(s_hi)

(***************************************************************************)
(* The Streamlit page with its Conectar button                             *)
(***************************************************************************)

\* The agent with a page whose user may press Conectar at any rerun, with
\* or without an API key.
NextSession ==
    \/ (cli_startup /\ UNCHANGED otherVars)
    \/ (conectar /\ UNCHANGED otherVars)
    \/ (reconectar /\ UNCHANGED otherVars)
    \/ (conectar_sin_api_key /\ UNCHANGED otherVars)
    \/ (ask /\ UNCHANGED otherVars)
    \/ (model_call /\ UNCHANGED otherVars)
    \/ (route /\ UNCHANGED otherVars)
    \/ (tools_with_logging /\ UNCHANGED otherVars)
    \/ (answer /\ UNCHANGED otherVars)

SpecSession == Init /\ [][NextSession]_vars

\* A rerun of the page in which Conectar was pressed.
Pressed ==
    frontend = "streamlit" /\ pc \in {"startup", "idle"} /\ pc' \in {"startup", "idle"}

\* With an API key the session is set from the form and the message list is
\* replaced by one message.
C22_WithKey ==
    (Pressed /\ form'.api_key # <<>>) =>
        LET paths == compute_history_paths(form'.role, form'.customer_id)
            parsed == parse_lines(file_lines(fs[paths.lite]))
        IN  /\ session'.role = form'.role
            /\ session'.customer_id = form'.customer_id
            /\ session'.client_tier \in
                   (IF form'.role = s_cliente THEN Tiers ELSE {NoneVal})
            /\ session'.lite_path = paths.lite
            /\ session'.full_path = paths.full
            /\ session'.initialized
            /\ pc' = "idle"
            /\ Len(messages_seq') = 1
            /\ IF parsed # <<>>
               THEN /\ messages_seq'[1].role = "assistant"
                    /\ messages_seq'[1].text \in SummaryTexts
               ELSE messages_seq'[1] =
                        Pair("user", <<"Customer ID: ">> \o form'.customer_id)

\* Without an API key nothing of the session changes.
C22_WithoutKey ==
    (Pressed /\ form'.api_key = <<>>) =>
        UNCHANGED <<session, messages_seq, pc, state, fs, turn>>

\* A query is handled on an initialised page only.
C22_ChatWhenInitialized ==
    (frontend = "streamlit" /\ pc' = "our_agent" /\ pc = "idle") => session.initialized

\* C22: Conectar pressed with an API key sets role, customer_id, client_tier
\* and the two history paths of the session from the form, sets initialized,
\* and replaces the message list by one message: an assistant summary when
\* the lite history file of that role and customer has a parsed line, the
\* user message 'Customer ID: <id>' otherwise, so that no message of an
\* earlier connection survives.  Pressed without an API key it changes
\* nothing of the session, and a query is handled only once initialized
\* is true.
C22_Conectar == [][C22_WithKey /\ C22_WithoutKey /\ C22_ChatWhenInitialized]_vars

\* A page that handled a query as cliente has been reconnected as ejecutivo:
\* the final state of the earlier run is still there, the message list is
\* the summary alone.
C22_Witness ==
    /\ frontend = "streamlit"
    /\ pc = "idle"
    /\ turn.user_q # NoneVal
    /\ Len(state.messages) > 2
    /\ state.meta["role"] = s_cliente
    /\ session.role = s_ejecutivo
    /\ session.initialized
    /\ form.api_key # <<>>
    /\ Len(messages_seq) = 1
    /\ messages_seq[1].role = "assistant"

(***************************************************************************)
(* The graph invoked with any meta, on files that may refuse writes        *)
(***************************************************************************)

\* The history paths a caller of app.invoke may put in meta.
CallerPaths == cli_history_paths(<<"CUST001">>)

\* meta with both paths, with one of them, with none.
MetaChoices ==
    { EmptyDict,
      [lite_history_path |-> CallerPaths.lite],
      [full_history_path |-> CallerPaths.full],
      [lite_history_path |-> CallerPaths.lite, full_history_path |-> CallerPaths.full] }

InitWrites ==
    /\ frontend = "cli"
    /\ session = NoSession
    /\ messages_seq = <<>>
    /\ state = NoState
    /\ pc = "idle"
    /\ fs = [p \in AllPaths |-> <<>>]
    /\ unwritable \in SUBSET {CallerPaths.lite, CallerPaths.full}
    /\ executed = <<>>
    /\ steps = 0
    /\ turn = NoTurn
    /\ form = NoForm
    /\ OtherIdle

\* app.invoke({"messages": [("user", user_q)], "meta": meta})
invoke_graph ==
    /\ pc = "idle"
    /\ steps < MaxModelCalls
    /\ \E user_q \in UserTexts, meta \in MetaChoices :
         /\ state' = [messages |-> <<coerce(Pair("user", user_q))>>, meta |-> meta]
         /\ turn' = [user_q |-> user_q, n_in |-> 1, fs |-> fs]
    /\ pc' = "our_agent"
    /\ UNCHANGED <<form, frontend, session, messages_seq, fs, unwritable, executed, steps>>

\* app.invoke returns the final state.
graph_returns ==
    /\ pc = "END"
    /\ pc' = "idle"
    /\ UNCHANGED <<form, frontend, session, messages_seq, state, fs, unwritable,
                   executed, steps, turn>>

NextWrites ==
    \/ (invoke_graph /\ UNCHANGED otherVars)
    \/ (model_call /\ UNCHANGED otherVars)
    \/ (route /\ UNCHANGED otherVars)
    \/ (tools_with_logging /\ UNCHANGED otherVars)
    \/ (graph_returns /\ UNCHANGED otherVars)

SpecWrites == InitWrites /\ [][NextWrites]_vars

\* The responses the model may give at this point of the run.
ResponsesNow ==
    {r \in {AIMessage(content, tool_calls) :
                content \in ModelTexts, tool_calls \in ToolCallChoices} :
        HasToolCalls(r) => steps + 1 < MaxModelCalls}

\* The paths of meta, those set only.
PathsOfMeta ==
    {state.meta[k] : k \in DOMAIN state.meta \cap {"lite_history_path", "full_history_path"}}

\* What each node does to the messages and where the run goes next, said
\* without the files.
C23_Outcome ==
    /\ (pc = "our_agent") =>
          /\ \E r \in ResponsesNow :
                state'.messages = state.messages \o <<r>>
          /\ pc' = "should_continue"
    /\ (pc = "should_continue") =>
          /\ state' = state
          /\ pc' = IF HasToolCalls(Last(state.messages)) THEN "tools" ELSE "END"
    /\ (pc = "tools") =>
          LET calls == Last(state.messages).tool_calls
          IN  /\ Len(state'.messages) = Len(state.messages) + Len(calls)
              /\ SubSeq(state'.messages, 1, Len(state.messages)) = state.messages
              /\ \A i \in 1..Len(calls) :
                    LET tm == state'.messages[Len(state.messages) + i]
                    IN  tm.type = "tool" /\ tm.name = <<calls[i]>>
              /\ pc' = "our_agent"

\* A file that refuses writes, or that meta does not name, is left as it is.
C23_Files ==
    \A p \in AllPaths : (p \in unwritable \/ p \notin PathsOfMeta) => fs'[p] = fs[p]

\* Whatever the files allow, the model can give each of its responses.
C23_EveryResponsePossible ==
    (pc = "our_agent") =>
        \A r \in ResponsesNow :
            ENABLED (/\ model_call
                     /\ UNCHANGED otherVars
                     /\ state'.messages = state.messages \o <<r>>)

\* C23: a history file that cannot be written never changes a run of the
\* agent: each node adds the same messages and the run takes the same turns
\* whether the lite and full history files accept writes or not, and a run
\* whose meta names no path writes nothing.
C23_WritesNeverMatter ==
    /\ [][C23_Outcome /\ C23_Files]_vars
    /\ []C23_EveryResponsePossible

\* A run with a tool round has ended with both history files named in meta
\* and refusing writes: nothing was written.
C23_Witness ==
    /\ pc = "END"
    /\ unwritable = {CallerPaths.lite, CallerPaths.full}
    /\ DOMAIN state.meta = {"lite_history_path", "full_history_path"}
    /\ Len(state.messages) = 4
    /\ state.messages[2].tool_calls # <<>>
    /\ state.messages[3].type = "tool"
    /\ state.messages[4].content = s_ok
    /\ \A p \in AllPaths : fs[p] = <<>>

(***************************************************************************)
(* categorize_risk and define_monitoring on two customers                  *)
(***************************************************************************)

OtherId == <<"CUST002">>

\* A customer by days since the last login, with 100 sessions and an income
\* of 1000.
Scored(customer_id, days) ==
    ("customer_id" :> customer_id) @@ ("days_since_last_login" :> days)
        @@ ("app_sessions_last_90d" :> 100) @@ ("monthly_income" :> 1000)

ScoredDays == {0, 30, 70}
ScoredDebts == {0, 400, 1000}
ScoredFlags == {s_True, s_False}

\* Two customers, each with one payment and one debt row.
CategoryDisks ==
    {[BaseFixtures EXCEPT
        !["customers.json"] = [customers |-> <<Scored(OtherId, d2), Scored(KnownId, d1)>>],
        !["payments.csv"] = <<Payment(OtherId, 90, p2), Payment(KnownId, 50, p1)>>,
        !["transactions.csv"] = <<>>,
        !["debts.csv"] = << [customer_id |-> OtherId, monthly_debt_service |-> b2],
                            [customer_id |-> KnownId, monthly_debt_service |-> b1] >>] :
        d1 \in ScoredDays, d2 \in ScoredDays, p1 \in ScoredFlags, p2 \in ScoredFlags,
        b1 \in ScoredDebts, b2 \in ScoredDebts}

InitCategory ==
    /\ ToolsIdle
    /\ tcall = <<>>
    /\ fx \in CategoryDisks

\* The newest invocation first, the one before it kept.
CalledAfter(tool, args, result) ==
    Called(tool, args, result) \o (IF tcall = <<>> THEN <<>> ELSE <<tcall[1]>>)

call_categorize_risk ==
    /\ \E customer_id \in {KnownId, OtherId} :
         tcall' = CalledAfter("categorize_risk", customer_id,
                              categorize_risk(fx, customer_id))
    /\ UNCHANGED <<agentVars, gtr, lt, fx, churn>>

call_define_monitoring ==
    /\ \E customer_id \in {KnownId, OtherId} :
         tcall' = CalledAfter("define_monitoring", customer_id,
                              define_monitoring(fx, customer_id))
    /\ UNCHANGED <<agentVars, gtr, lt, fx, churn>>

NextCategory == call_categorize_risk \/ call_define_monitoring

SpecCategory == InitCategory /\ [][NextCategory]_vars

\* The overall risk score of the customer of an invocation, in thousandths.
ScoreOf(call) == overall_risk_score_calculator(call.fx, call.args).overall_risk_score

\* The bucket of a score.
BucketOf(score) ==
    IF score >= 700 THEN "high" ELSE IF score <= 350 THEN "low" ELSE "medium"

\* How high a category or a monitoring frequency is.
Height(word) ==
    CASE word \in {"low", "quarterly"} -> 1
      [] word \in {"medium", "monthly"} -> 2
      [] word \in {"high", "weekly"} -> 3

\* The category or the frequency an invocation returned.
AnswerOf(call) ==
    IF call.tool = "categorize_risk" THEN call.result.risk_category
    ELSE call.result.monitoring_frequency

\* C24: categorize_risk answers 'high' for an overall risk score >= 0.7,
\* 'low' for one <= 0.35 and 'medium' between them; define_monitoring
\* answers 'weekly', 'quarterly' and 'monthly' for these; and of two
\* customers the one with the higher score never gets the lower category or
\* the less frequent monitoring.
C24_CategoriesFollowScore ==
    /\ \A i \in 1..Len(tcall) :
          LET bucket == BucketOf(ScoreOf(tcall[i]))
          IN  IF tcall[i].tool = "categorize_risk"
              THEN tcall[i].result = [risk_category |-> bucket]
              ELSE tcall[i].result =
                       [monitoring_frequency |->
                           CASE bucket = "high" -> "weekly"
                             [] bucket = "low" -> "quarterly"
                             [] bucket = "medium" -> "monthly"]
    /\ (Len(tcall) = 2 /\ tcall[1].tool = tcall[2].tool
            /\ ScoreOf(tcall[1]) >= ScoreOf(tcall[2])) =>
          Height(AnswerOf(tcall[1])) >= Height(AnswerOf(tcall[2]))

\* define_monitoring was invoked for a customer scoring exactly 0.35 and then
\* for one scoring exactly 0.7: quarterly, then weekly.
C24_Witness ==
    /\ Len(tcall) = 2
    /\ tcall[1].tool = "define_monitoring"
    /\ tcall[2].tool = "define_monitoring"
    /\ ScoreOf(tcall[1]) = 700
    /\ ScoreOf(tcall[2]) = 350
    /\ AnswerOf(tcall[1]) = "weekly"
    /\ AnswerOf(tcall[2]) = "quarterly"

=============================================================================
